---------------------------- MODULE Spec2Model ----------------------------
(***************************************************************************)
(* A model of damm-pnl.ts, a command-line tracker of trading positions.    *)
(*                                                                         *)
(* One run of the program is one action: it loads the position file,       *)
(* executes the command named by argv, possibly saves the file, and exits. *)
(* The state is what survives a run (the position file and the wall        *)
(* clock) and what the run reported (exit status, displayed figures).      *)
(*                                                                         *)
(* Numbers.  Money amounts are integers (whole dollars), or one of the     *)
(* values Infinity, -Infinity and NaN of a JavaScript number, or the null  *)
(* JSON writes for those three.  A quotient the code computes in floating  *)
(* point (a percentage, a ratio, a SOL equivalent) is an exact rational    *)
(* [n, d] in lowest terms with d > 0, or a fraction with d <= 0 that       *)
(* stands for Infinity, -Infinity, NaN or null.                            *)
(* Time.  Date.now() is counted in seconds, not milliseconds, so that 31   *)
(* days fit a 32-bit integer; an ISO timestamp string is the instant it    *)
(* denotes.                                                                *)
(***************************************************************************)
EXTENDS Integers, Sequences, FiniteSets, TLC

VARIABLES
  file,    \* damm_positions.json: [exists, entries], entries a sequence of
           \* [key, pos] in the insertion order of the JSON object
  now,     \* Date.now() of the most recent run
  last,    \* the most recent run: exit status and the kind of error reported
  shown,   \* what displayPositionInfo printed in the most recent run
  solPriceCache,   \* the price cache in memory: <<>> for null, or <<cache>>
  priceCacheFile,  \* sol_price_cache.json: <<>> when absent, or <<cache>>
  oracle,  \* the call of getSOLPriceUSD: where it stands and what it returned
  running  \* the invocations in flight when several run at once: for each
           \* process its command line, the store it loaded, how it ended

vars == <<file, now, last, shown, solPriceCache, priceCacheFile, oracle, running>>

oracleVars == <<solPriceCache, priceCacheFile, oracle>>

---------------------------------------------------------------------------
(* Bounds of the exploration. *)

\* the clock stops the exploration after this many runs that wrote the file
MaxClock == 3

\* SpecPnl values a position at 0, 5, 10, ..., 5 * MaxValueSteps dollars
MaxValueSteps == 60

---------------------------------------------------------------------------
(* Program constants. *)

TAKE_PROFIT     == 25
STRONG_PROFIT   == 15
MODERATE_PROFIT == 5
BREAK_EVEN      == 0
MODERATE_LOSS   == -10
STOP_LOSS       == -20
HIGH_FEES_RATIO == [n |-> 4, d |-> 5]      \* 0.8

\* daysOpen > 30 in generateSuggestion
RecentDays == 30

\* unrealizedPnlUSD > 10 in generateSuggestion
MeaningfulGainUSD == 10

\* 1000 * 60 * 60 * 24 milliseconds, here in seconds
SecPerDay == 86400

\* clean drops positions whose initial value exceeds this
CleanCeilingUSD == 10000

---------------------------------------------------------------------------
(* Exact rationals. *)

Abs(x) == IF x < 0 THEN -x ELSE x

RECURSIVE GCD(_, _)
GCD(a, b) == IF b = 0 THEN a ELSE GCD(b, a % b)

\* n / d for d # 0, in lowest terms with a positive denominator
Rat(n, d) ==
  LET g == GCD(Abs(n), Abs(d))
      s == IF d < 0 THEN -1 ELSE 1
  IN  [n |-> s * (n \div g), d |-> s * (d \div g)]

RatZero == [n |-> 0, d |-> 1]

\* the quotients that are not finite, and the null JSON writes for them
RatInfinity    == [n |-> 1,  d |-> 0]
RatNegInfinity == [n |-> -1, d |-> 0]
RatNaN         == [n |-> 0,  d |-> 0]
RatNull        == [n |-> 0,  d |-> -1]

\* a comparison with NaN is false; null compares as 0
RatNum(a) == IF a = RatNull THEN RatZero ELSE a

RatLT(a, b) ==
  LET x == RatNum(a)
      y == RatNum(b)
  IN  /\ x # RatNaN
      /\ y # RatNaN
      /\ IF x.d = 0 /\ y.d = 0 THEN x.n < y.n ELSE x.n * y.d < y.n * x.d

RatLE(a, b) ==
  LET x == RatNum(a)
      y == RatNum(b)
  IN  /\ x # RatNaN
      /\ y # RatNaN
      /\ IF x.d = 0 /\ y.d = 0 THEN x.n <= y.n ELSE x.n * y.d <= y.n * x.d

\* a * b and a + b for finite quotients
RatMul(a, b) == Rat(a.n * b.n, a.d * b.d)
RatAdd(a, b) == Rat(a.n * b.d + b.n * a.d, a.d * b.d)

RatGT(a, b) == RatLT(b, a)
RatGE(a, b) == RatLE(b, a)
RatOfInt(k) == [n |-> k, d |-> 1]

\* Math.floor(a / b) for b > 0
Floor(a, b) == a \div b

---------------------------------------------------------------------------
(* JavaScript numbers.  The three values that are not finite, and null,    *)
(* are integers no amount of the model reaches.                            *)

Infinity    == 1000000000
NegInfinity == -1000000000
NaN         == 1000000001
Null        == 1000000002

IsFinite(x) == NegInfinity < x /\ x < Infinity

\* ToNumber: null counts as 0 in arithmetic and in comparisons
ToNumber(x) == IF x = Null THEN 0 ELSE x

\* -x
Neg(x) ==
  LET a == ToNumber(x)
  IN  IF a = NaN THEN NaN
      ELSE IF a = Infinity THEN NegInfinity
      ELSE IF a = NegInfinity THEN Infinity
      ELSE -a

\* x + y
Plus(x, y) ==
  IF IsFinite(x) /\ IsFinite(y) THEN x + y
  ELSE LET a == ToNumber(x)
           b == ToNumber(y)
       IN  IF a = NaN \/ b = NaN THEN NaN
           ELSE IF IsFinite(a) /\ IsFinite(b) THEN a + b
           ELSE IF IsFinite(a) THEN b
           ELSE IF IsFinite(b) THEN a
           ELSE IF a = b THEN a
           ELSE NaN

\* x - y
Minus(x, y) == Plus(x, Neg(y))

\* x > y, x >= y, x < y, x <= y: false when either side is NaN
Gt(x, y) ==
  LET a == ToNumber(x)
      b == ToNumber(y)
  IN  a # NaN /\ b # NaN /\ a > b

Ge(x, y) ==
  LET a == ToNumber(x)
      b == ToNumber(y)
  IN  a # NaN /\ b # NaN /\ a >= b

Lt(x, y) == Gt(y, x)
Le(x, y) == Ge(y, x)

\* x / y
Div(x, y) ==
  LET a == ToNumber(x)
      b == ToNumber(y)
  IN  IF a = NaN \/ b = NaN THEN RatNaN
      ELSE IF ~IsFinite(a) /\ ~IsFinite(b) THEN RatNaN
      ELSE IF ~IsFinite(a)
           THEN IF (a = Infinity) = (b >= 0) THEN RatInfinity ELSE RatNegInfinity
      ELSE IF ~IsFinite(b) THEN RatZero
      ELSE IF b = 0
           THEN IF a = 0 THEN RatNaN
                ELSE IF a > 0 THEN RatInfinity ELSE RatNegInfinity
      ELSE Rat(a, b)

\* (x / y) * 100
Percent(x, y) ==
  IF IsFinite(ToNumber(x)) /\ IsFinite(ToNumber(y)) /\ ToNumber(y) # 0
  THEN Rat(ToNumber(x) * 100, ToNumber(y))
  ELSE Div(x, y)

\* JSON.stringify of a number and of a quotient: null when it is not finite
JsonNumber(x) == IF IsFinite(x) THEN x ELSE Null
JsonRat(r)    == IF r.d > 0 THEN r ELSE RatNull

---------------------------------------------------------------------------
(* The words of a command line. *)

TokenWords == {"a", "A", "b"}
NumWords   == {"-1", "0", "1", "10001", "x"}

CommandWords ==
  {"list", "closed", "summary", "clean", "remove", "reset",
   "claim-fee", "add-capital", "withdraw", "close"}

\* String.prototype.toLowerCase on the words of the model
toLowerCase(w) == IF w = "A" THEN "a" ELSE w

\* String.prototype.toUpperCase on the words of the model
toUpperCase(w) == IF w = "a" THEN "A" ELSE IF w = "b" THEN "B" ELSE w

\* parseFloat: the longest numeric prefix, NaN when there is none
parseFloat(w) ==
  CASE w = "-1"    -> [nan |-> FALSE, v |-> -1]
    [] w = "0"     -> [nan |-> FALSE, v |-> 0]
    [] w = "1"     -> [nan |-> FALSE, v |-> 1]
    [] w = "10001" -> [nan |-> FALSE, v |-> 10001]
    [] w = "1x"    -> [nan |-> FALSE, v |-> 1]
    [] w = "10"    -> [nan |-> FALSE, v |-> 10]
    [] w = "500"   -> [nan |-> FALSE, v |-> 500]
    [] w = "50"    -> [nan |-> FALSE, v |-> 50]
    [] w = "100"   -> [nan |-> FALSE, v |-> 100]
    [] w = "120"   -> [nan |-> FALSE, v |-> 120]
    [] w = "200"   -> [nan |-> FALSE, v |-> 200]
    [] w = "Infinity"  -> [nan |-> FALSE, v |-> Infinity]
    [] w = "-Infinity" -> [nan |-> FALSE, v |-> NegInfinity]
    [] OTHER       -> [nan |-> TRUE,  v |-> 0]

isNaN(x) == x.nan

---------------------------------------------------------------------------
(* JavaScript objects: a record whose set of fields can grow and shrink. *)

Has(o, f)      == f \in DOMAIN o
With(o, f, v)  == (f :> v) @@ o
Without(o, fs) == [k \in DOMAIN o \ fs |-> o[k]]

\* o.f || 0 for a numeric field: undefined, null, NaN and 0 are falsy
OrZero(o, f) == IF Has(o, f) /\ o[f] # Null /\ o[f] # NaN THEN o[f] ELSE 0

\* o.f as an operand of arithmetic: undefined is NaN
Field(o, f) == IF Has(o, f) THEN o[f] ELSE NaN

\* !o.is_closed and o.is_closed as conditions
IsClosed(o) == Has(o, "is_closed") /\ o.is_closed

(* Record<string, Position>: the entries [key, pos] in insertion order. *)

KeysOf(positions) == {positions[i].key : i \in 1..Len(positions)}

IndexOfKey(positions, key) ==
  IF key \in KeysOf(positions)
  THEN CHOOSE i \in 1..Len(positions) : positions[i].key = key
  ELSE 0

\* positions[key] = pos
ObjSet(positions, key, pos) ==
  LET i == IndexOfKey(positions, key)
  IN  IF i = 0
      THEN Append(positions, [key |-> key, pos |-> pos])
      ELSE [positions EXCEPT ![i] = [key |-> key, pos |-> pos]]

RECURSIVE DropAt(_, _)
DropAt(s, i) ==
  IF s = <<>> THEN <<>>
  ELSE IF i = 1 THEN Tail(s)
  ELSE <<Head(s)>> \o DropAt(Tail(s), i - 1)

\* delete positions[key]
ObjDelete(positions, key) ==
  LET i == IndexOfKey(positions, key)
  IN  IF i = 0 THEN positions ELSE DropAt(positions, i)

\* Object.values(positions)
Values(positions) == [i \in 1..Len(positions) |-> positions[i].pos]

---------------------------------------------------------------------------
(* Loading and saving the position file. *)

\* MigrateEntry, had it added the additions to the total already stored
MigrateEntry_Accumulates(key, position, t) ==
  LET p == IF Has(position, "capital_reduction_usd")
           THEN Without(With(position, "withdrawn_usd",
                             Plus(position.capital_reduction_usd,
                                  OrZero(position, "profit_taken_usd"))),
                        {"capital_reduction_usd", "profit_taken_usd"})
           ELSE position
      q == IF ~Has(p, "id")
           THEN With(With(p, "id",
                          key \o <<IF Has(p, "created_at")
                                   THEN p.created_at ELSE t>>),
                     "token", key[1])
           ELSE p
  IN  IF Has(q, "initial_value_usd")
      THEN With(q, "total_invested_usd",
                Plus(OrZero(q, "total_invested_usd"),
                     OrZero(q, "capital_additions_usd")))
      ELSE q

\* One iteration of the migration loop of loadPositions.  A key is the
\* sequence of the parts of the string: a token-keyed legacy entry has the
\* key <<token>>, and the id made for it is <<token, created_at>>.
MigrateEntry(key, position, t) ==
  LET p1 == IF ~Has(position, "id")
            THEN With(With(position, "id",
                           key \o <<IF Has(position, "created_at")
                                    THEN position.created_at ELSE t>>),
                      "token", key[1])
            ELSE position
      p2 == IF Has(p1, "capital_reduction_usd")
            THEN Without(With(p1, "withdrawn_usd",
                              Plus(p1.capital_reduction_usd,
                                   OrZero(p1, "profit_taken_usd"))),
                         {"capital_reduction_usd", "profit_taken_usd"})
            ELSE p1
      p3 == IF Has(p2, "initial_value_usd")
            THEN With(p2, "total_invested_usd",
                      Plus(p2.initial_value_usd,
                           OrZero(p2, "capital_additions_usd")))
            ELSE p2
  IN  p3

RECURSIVE MigrateFrom(_, _, _)
MigrateFrom(entries, migrated, t) ==
  IF entries = <<>> THEN migrated
  ELSE LET pos == MigrateEntry(Head(entries).key, Head(entries).pos, t)
       IN  MigrateFrom(Tail(entries), ObjSet(migrated, pos.id, pos), t)

\* readFileSync or JSON.parse throws on a file whose text is not the JSON
\* text of its entries (a truncated or garbled file)
Unreadable(f) == Has(f, "parses") /\ ~f.parses

\* loadPositions, had it recovered the entries of a file that does not parse
loadPositions_Salvages(f, t) ==
  IF f.exists THEN MigrateFrom(f.entries, <<>>, t) ELSE <<>>

loadPositions(f, t) ==
  IF f.exists /\ ~Unreadable(f) THEN MigrateFrom(f.entries, <<>>, t) ELSE <<>>

\* the fields of a position that hold a number, and the one that holds a
\* quotient
NumberFields == {"initial_value_usd", "fees_claimed_usd", "capital_additions_usd",
                 "withdrawn_usd", "total_invested_usd", "exit_value_usd",
                 "final_pnl_usd", "capital_reduction_usd", "profit_taken_usd",
                 "initial_value"}

\* JSON.stringify of a position, read back by JSON.parse
JsonPosition(position) ==
  [f \in DOMAIN position |->
     IF f \in NumberFields THEN JsonNumber(position[f])
     ELSE IF f = "final_pnl_percentage" THEN JsonRat(position[f])
     ELSE position[f]]

savePositions(positions) ==
  [exists  |-> TRUE,
   entries |-> [i \in 1..Len(positions) |->
                  [key |-> positions[i].key, pos |-> JsonPosition(positions[i].pos)]]]

---------------------------------------------------------------------------
(* Position management. *)

TokenMatches(position, token) ==
  toLowerCase(position.token) = toLowerCase(token)

\* the lookup as it would be if it did not filter out closed positions
findActivePosition_AnyState(positions, token) ==
  LET hits == {i \in 1..Len(positions) : TokenMatches(positions[i].pos, token)}
  IN  IF hits = {} THEN 0
      ELSE CHOOSE i \in hits : \A j \in hits : i <= j

\* the index of the first active position of the token, 0 when there is none
findActivePosition(positions, token) ==
  LET hits == {i \in 1..Len(positions) :
                 TokenMatches(positions[i].pos, token) /\ ~IsClosed(positions[i].pos)}
  IN  IF hits = {} THEN 0
      ELSE CHOOSE i \in hits : \A j \in hits : i <= j

findClosedPositions(positions, token) ==
  SelectSeq(Values(positions),
            LAMBDA pos : TokenMatches(pos, token) /\ IsClosed(pos))

\* Math.random().toString(36).substr(2, 9): the suffixes a run can draw
RandomSuffixes == {"k3x9"}

\* `${token.toLowerCase()}_${Date.now()}_${random}`
generatePositionId(token, t, rnd) == <<toLowerCase(token), t, rnd>>

initializePosition(token, initialValueUSD, t, rnd) ==
  [id                    |-> generatePositionId(token, t, rnd),
   token                 |-> token,
   initial_value_usd     |-> initialValueUSD,
   fees_claimed_usd      |-> 0,
   created_at            |-> t,
   last_updated          |-> t,
   capital_additions_usd |-> 0,
   withdrawn_usd         |-> 0,
   total_invested_usd    |-> initialValueUSD]

---------------------------------------------------------------------------
(* The PnL engine and the suggestion engine. *)

\* usd / solPriceUSD, and 0 when the price is not positive
ToSol(usd, solPriceUSD) ==
  IF solPriceUSD > 0 THEN Div(usd, solPriceUSD) ELSE RatZero

\* calculatePnl as it would be if the unrealized figure ignored withdrawals
calculatePnl_IgnoresWithdrawn(position, currentValueUSD, solPriceUSD) ==
  LET capitalAdditions     == OrZero(position, "capital_additions_usd")
      withdrawn            == OrZero(position, "withdrawn_usd")
      totalInvestedUSD     == Plus(Field(position, "initial_value_usd"),
                                   capitalAdditions)
      totalValueUSD        == Plus(Plus(currentValueUSD, withdrawn),
                                   Field(position, "fees_claimed_usd"))
      totalPnlUSD          == Minus(totalValueUSD, totalInvestedUSD)
      unrealizedPnlUSD     == Minus(currentValueUSD, totalInvestedUSD)
      realizedPnlUSD       == Plus(withdrawn, Field(position, "fees_claimed_usd"))
      pnlPercentage        == IF Gt(totalInvestedUSD, 0)
                              THEN Percent(totalPnlUSD, totalInvestedUSD)
                              ELSE RatZero
  IN  [unrealized_pnl_usd |-> unrealizedPnlUSD,
       realized_pnl_usd   |-> realizedPnlUSD,
       total_pnl_usd      |-> totalPnlUSD,
       pnl_percentage     |-> pnlPercentage,
       initial_value_usd  |-> Field(position, "initial_value_usd"),
       current_value_usd  |-> currentValueUSD,
       total_invested_usd |-> totalInvestedUSD,
       unrealized_pnl_sol |-> ToSol(unrealizedPnlUSD, solPriceUSD),
       realized_pnl_sol   |-> ToSol(realizedPnlUSD, solPriceUSD),
       total_pnl_sol      |-> ToSol(totalPnlUSD, solPriceUSD),
       initial_value_sol  |-> ToSol(Field(position, "initial_value_usd"), solPriceUSD),
       current_value_sol  |-> ToSol(currentValueUSD, solPriceUSD),
       total_invested_sol |-> ToSol(totalInvestedUSD, solPriceUSD)]

calculatePnl(position, currentValueUSD, solPriceUSD) ==
  LET capitalAdditions     == OrZero(position, "capital_additions_usd")
      withdrawn            == OrZero(position, "withdrawn_usd")
      totalInvestedUSD     == Plus(Field(position, "initial_value_usd"),
                                   capitalAdditions)
      currentlyInvestedUSD == Minus(totalInvestedUSD, withdrawn)
      totalValueUSD        == Plus(Plus(currentValueUSD, withdrawn),
                                   Field(position, "fees_claimed_usd"))
      totalPnlUSD          == Minus(totalValueUSD, totalInvestedUSD)
      unrealizedPnlUSD     == Minus(currentValueUSD, currentlyInvestedUSD)
      realizedPnlUSD       == Plus(withdrawn, Field(position, "fees_claimed_usd"))
      pnlPercentage        == IF Gt(totalInvestedUSD, 0)
                              THEN Percent(totalPnlUSD, totalInvestedUSD)
                              ELSE RatZero
  IN  [unrealized_pnl_usd |-> unrealizedPnlUSD,
       realized_pnl_usd   |-> realizedPnlUSD,
       total_pnl_usd      |-> totalPnlUSD,
       pnl_percentage     |-> pnlPercentage,
       initial_value_usd  |-> Field(position, "initial_value_usd"),
       current_value_usd  |-> currentValueUSD,
       total_invested_usd |-> totalInvestedUSD,
       unrealized_pnl_sol |-> ToSol(unrealizedPnlUSD, solPriceUSD),
       realized_pnl_sol   |-> ToSol(realizedPnlUSD, solPriceUSD),
       total_pnl_sol      |-> ToSol(totalPnlUSD, solPriceUSD),
       initial_value_sol  |-> ToSol(Field(position, "initial_value_usd"), solPriceUSD),
       current_value_sol  |-> ToSol(currentValueUSD, solPriceUSD),
       total_invested_sol |-> ToSol(totalInvestedUSD, solPriceUSD)]

Suggest(action, reason, confidence) ==
  [action |-> action, reason |-> reason, confidence |-> confidence]

\* generateSuggestion as it would be if the percentage bands were tried
\* before the fee ratio
generateSuggestion_BandsFirst(position, pnlData, t) ==
  LET pnlPercent       == pnlData.pnl_percentage
      unrealizedPnlUSD == pnlData.unrealized_pnl_usd
      realizedPnlUSD   == pnlData.realized_pnl_usd
      daysOpen         == Floor(t - position.created_at, SecPerDay)
  IN  IF RatGE(pnlPercent, RatOfInt(TAKE_PROFIT))
      THEN Suggest("TAKE_PROFIT", "Excellent return", "HIGH")
      ELSE IF RatGE(pnlPercent, RatOfInt(STRONG_PROFIT))
      THEN Suggest("REDUCE", "Strong profit", "MEDIUM")
      ELSE IF /\ Gt(unrealizedPnlUSD, MeaningfulGainUSD)
              /\ RatGT(Div(realizedPnlUSD, unrealizedPnlUSD), HIGH_FEES_RATIO)
      THEN Suggest("TAKE_PROFIT", "High fees earned", "HIGH")
      ELSE IF RatLE(pnlPercent, RatOfInt(STOP_LOSS))
      THEN Suggest("STOP_LOSS", "Position down, cut losses", "HIGH")
      ELSE IF RatLE(pnlPercent, RatOfInt(MODERATE_LOSS))
      THEN IF daysOpen > RecentDays
           THEN Suggest("REDUCE", "Position down for days", "MEDIUM")
           ELSE Suggest("HOLD", "Down but position is recent", "LOW")
      ELSE IF /\ RatGE(pnlPercent, RatOfInt(BREAK_EVEN))
              /\ RatLT(pnlPercent, RatOfInt(MODERATE_PROFIT))
      THEN IF Gt(realizedPnlUSD, 0)
           THEN Suggest("TOP_UP", "Near breakeven with fees earned", "MEDIUM")
           ELSE Suggest("HOLD", "Position near breakeven", "LOW")
      ELSE IF /\ RatGE(pnlPercent, RatOfInt(MODERATE_PROFIT))
              /\ RatLT(pnlPercent, RatOfInt(STRONG_PROFIT))
      THEN Suggest("HOLD", "Good profit with momentum", "MEDIUM")
      ELSE Suggest("HOLD", "Position performing as expected", "LOW")

\* generateSuggestion as it would be if the band of the top-up rule began
\* where the band of the loss rules ends
generateSuggestion_NoGap(position, pnlData, t) ==
  LET pnlPercent       == pnlData.pnl_percentage
      unrealizedPnlUSD == pnlData.unrealized_pnl_usd
      realizedPnlUSD   == pnlData.realized_pnl_usd
      daysOpen         == Floor(t - position.created_at, SecPerDay)
  IN  IF /\ Gt(unrealizedPnlUSD, MeaningfulGainUSD)
         /\ RatGT(Div(realizedPnlUSD, unrealizedPnlUSD), HIGH_FEES_RATIO)
      THEN Suggest("TAKE_PROFIT", "High fees earned", "HIGH")
      ELSE IF RatGE(pnlPercent, RatOfInt(TAKE_PROFIT))
      THEN Suggest("TAKE_PROFIT", "Excellent return", "HIGH")
      ELSE IF RatGE(pnlPercent, RatOfInt(STRONG_PROFIT))
      THEN Suggest("REDUCE", "Strong profit", "MEDIUM")
      ELSE IF RatLE(pnlPercent, RatOfInt(STOP_LOSS))
      THEN Suggest("STOP_LOSS", "Position down, cut losses", "HIGH")
      ELSE IF RatLE(pnlPercent, RatOfInt(MODERATE_LOSS))
      THEN IF daysOpen > RecentDays
           THEN Suggest("REDUCE", "Position down for days", "MEDIUM")
           ELSE Suggest("HOLD", "Down but position is recent", "LOW")
      ELSE IF RatLT(pnlPercent, RatOfInt(MODERATE_PROFIT))
      THEN IF Gt(realizedPnlUSD, 0)
           THEN Suggest("TOP_UP", "Near breakeven with fees earned", "MEDIUM")
           ELSE Suggest("HOLD", "Position near breakeven", "LOW")
      ELSE IF /\ RatGE(pnlPercent, RatOfInt(MODERATE_PROFIT))
              /\ RatLT(pnlPercent, RatOfInt(STRONG_PROFIT))
      THEN Suggest("HOLD", "Good profit with momentum", "MEDIUM")
      ELSE Suggest("HOLD", "Position performing as expected", "LOW")

\* The reason is the template of the message, without the figures it embeds.
generateSuggestion(position, pnlData, t) ==
  LET pnlPercent       == pnlData.pnl_percentage
      unrealizedPnlUSD == pnlData.unrealized_pnl_usd
      realizedPnlUSD   == pnlData.realized_pnl_usd
      daysOpen         == Floor(t - position.created_at, SecPerDay)
  IN  IF /\ Gt(unrealizedPnlUSD, MeaningfulGainUSD)
         /\ RatGT(Div(realizedPnlUSD, unrealizedPnlUSD), HIGH_FEES_RATIO)
      THEN Suggest("TAKE_PROFIT", "High fees earned", "HIGH")
      ELSE IF RatGE(pnlPercent, RatOfInt(TAKE_PROFIT))
      THEN Suggest("TAKE_PROFIT", "Excellent return", "HIGH")
      ELSE IF RatGE(pnlPercent, RatOfInt(STRONG_PROFIT))
      THEN Suggest("REDUCE", "Strong profit", "MEDIUM")
      ELSE IF RatLE(pnlPercent, RatOfInt(STOP_LOSS))
      THEN Suggest("STOP_LOSS", "Position down, cut losses", "HIGH")
      ELSE IF RatLE(pnlPercent, RatOfInt(MODERATE_LOSS))
      THEN IF daysOpen > RecentDays
           THEN Suggest("REDUCE", "Position down for days", "MEDIUM")
           ELSE Suggest("HOLD", "Down but position is recent", "LOW")
      ELSE IF /\ RatGE(pnlPercent, RatOfInt(BREAK_EVEN))
              /\ RatLT(pnlPercent, RatOfInt(MODERATE_PROFIT))
      THEN IF Gt(realizedPnlUSD, 0)
           THEN Suggest("TOP_UP", "Near breakeven with fees earned", "MEDIUM")
           ELSE Suggest("HOLD", "Position near breakeven", "LOW")
      ELSE IF /\ RatGE(pnlPercent, RatOfInt(MODERATE_PROFIT))
              /\ RatLT(pnlPercent, RatOfInt(STRONG_PROFIT))
      THEN Suggest("HOLD", "Good profit with momentum", "MEDIUM")
      ELSE Suggest("HOLD", "Position performing as expected", "LOW")

\* value.toFixed(2) throws a TypeError when value is undefined or null
ToFixedThrows(o, f) == ~Has(o, f) \/ o[f] = Null

\* What displayPositionInfo computes and prints, or that it threw: the
\* figures are formatted by toFixed, which the initial value and the fees
\* claimed reach as they are stored in the position.
displayPositionInfo(token, position, currentValueUSD, t, solPriceUSD) ==
  IF \/ ToFixedThrows(position, "initial_value_usd")
     \/ ToFixedThrows(position, "fees_claimed_usd")
  THEN [threw |-> TRUE, printed |-> <<>>]
  ELSE LET pnlData == calculatePnl(position, currentValueUSD, solPriceUSD)
       IN  [threw   |-> FALSE,
            printed |-> <<[token      |-> toUpperCase(token),
                           position   |-> position,
                           at         |-> t,
                           pnl        |-> pnlData,
                           suggestion |-> generateSuggestion(position, pnlData, t)]>>]

---------------------------------------------------------------------------
(* The commands of main.  args is process.argv.slice(2), indexed from 1.   *)
(* A handler returns the outcome of the run: the exit status, the kind of  *)
(* error reported, whether savePositions ran and with which object, and    *)
(* what displayPositionInfo printed.                                       *)

\* console.error(...); process.exit(1)
Fail(err) ==
  [exit |-> 1, err |-> err, save |-> FALSE, positions |-> <<>>, show |-> <<>>]

\* savePositions(positions), then a normal return
Saved(positions, show) ==
  [exit |-> 0, err |-> "none", save |-> TRUE, positions |-> positions, show |-> show]

\* savePositions(positions), then displayPositionInfo: when it throws, the
\* handler of main().catch reports the error and calls process.exit(1)
Displayed(positions, display) ==
  IF display.threw
  THEN [exit |-> 1, err |-> "thrown", save |-> TRUE, positions |-> positions,
        show |-> <<>>]
  ELSE Saved(positions, display.printed)

\* o.f || 0 for a field that holds a quotient
RatOrZero(o, f) == IF Has(o, f) /\ o[f].d > 0 THEN o[f] ELSE RatZero

\* the running totals of calculateSummaryStats before the first position
SummaryZero ==
  [totalInvestedUSD |-> 0, totalPnlUSD |-> 0,
   winningPositions |-> 0, losingPositions |-> 0,
   totalWinPnlUSD |-> 0, totalLossPnlUSD |-> 0,
   biggestWinUSD |-> 0, biggestLossUSD |-> 0,
   biggestWinPercent |-> RatZero, biggestLossPercent |-> RatZero]

\* the body of the forEach, had it counted a position that broke even as
\* a loss
SummaryStep_EvenLoses(s, position) ==
  LET pnlUSD     == OrZero(position, "final_pnl_usd")
      pnlPercent == RatOrZero(position, "final_pnl_percentage")
      s1 == [s EXCEPT !.totalInvestedUSD =
                        Plus(@, OrZero(position, "total_invested_usd")),
                      !.totalPnlUSD = Plus(@, pnlUSD)]
  IN  IF Gt(pnlUSD, 0)
      THEN [s1 EXCEPT !.winningPositions = @ + 1,
                      !.totalWinPnlUSD = Plus(@, pnlUSD),
                      !.biggestWinUSD = IF Gt(pnlUSD, @) THEN pnlUSD ELSE @,
                      !.biggestWinPercent =
                        IF RatGT(pnlPercent, @) THEN pnlPercent ELSE @]
      ELSE [s1 EXCEPT !.losingPositions = @ + 1,
                      !.totalLossPnlUSD = Plus(@, pnlUSD),
                      !.biggestLossUSD = IF Lt(pnlUSD, @) THEN pnlUSD ELSE @,
                      !.biggestLossPercent =
                        IF RatLT(pnlPercent, @) THEN pnlPercent ELSE @]

\* the body of the forEach of calculateSummaryStats
SummaryStep(s, position) ==
  LET pnlUSD     == OrZero(position, "final_pnl_usd")
      pnlPercent == RatOrZero(position, "final_pnl_percentage")
      s1 == [s EXCEPT !.totalInvestedUSD =
                        Plus(@, OrZero(position, "total_invested_usd")),
                      !.totalPnlUSD = Plus(@, pnlUSD)]
  IN  IF Gt(pnlUSD, 0)
      THEN [s1 EXCEPT !.winningPositions = @ + 1,
                      !.totalWinPnlUSD = Plus(@, pnlUSD),
                      !.biggestWinUSD = IF Gt(pnlUSD, @) THEN pnlUSD ELSE @,
                      !.biggestWinPercent =
                        IF RatGT(pnlPercent, @) THEN pnlPercent ELSE @]
      ELSE IF Lt(pnlUSD, 0)
      THEN [s1 EXCEPT !.losingPositions = @ + 1,
                      !.totalLossPnlUSD = Plus(@, pnlUSD),
                      !.biggestLossUSD = IF Lt(pnlUSD, @) THEN pnlUSD ELSE @,
                      !.biggestLossPercent =
                        IF RatLT(pnlPercent, @) THEN pnlPercent ELSE @]
      ELSE s1

RECURSIVE SummaryFrom(_, _)
SummaryFrom(positions, s) ==
  IF positions = <<>> THEN s
  ELSE SummaryFrom(Tail(positions), SummaryStep(s, Head(positions)))

calculateSummaryStats(positions) ==
  LET s              == SummaryFrom(positions, SummaryZero)
      totalPositions == Len(positions)
      winRate  == IF totalPositions > 0
                  THEN Rat(s.winningPositions * 100, totalPositions) ELSE RatZero
      lossRate == IF totalPositions > 0
                  THEN Rat(s.losingPositions * 100, totalPositions) ELSE RatZero
      overallPnlPercentage ==
        IF Gt(s.totalInvestedUSD, 0)
        THEN Percent(s.totalPnlUSD, s.totalInvestedUSD) ELSE RatZero
      avgWinUSD  == IF s.winningPositions > 0
                    THEN Rat(s.totalWinPnlUSD, s.winningPositions) ELSE RatZero
      avgLossUSD == IF s.losingPositions > 0
                    THEN Rat(s.totalLossPnlUSD, s.losingPositions) ELSE RatZero
      winProbability  == IF totalPositions > 0
                         THEN Rat(s.winningPositions, totalPositions) ELSE RatZero
      lossProbability == IF totalPositions > 0
                         THEN Rat(s.losingPositions, totalPositions) ELSE RatZero
      expectedValueUSD == RatAdd(RatMul(winProbability, avgWinUSD),
                                 RatMul(lossProbability, avgLossUSD))
  IN  [totalInvestedUSD     |-> s.totalInvestedUSD,
       totalPnlUSD          |-> s.totalPnlUSD,
       winningPositions     |-> s.winningPositions,
       losingPositions      |-> s.losingPositions,
       totalWinPnlUSD       |-> s.totalWinPnlUSD,
       totalLossPnlUSD      |-> s.totalLossPnlUSD,
       winRate              |-> winRate,
       lossRate             |-> lossRate,
       overallPnlPercentage |-> overallPnlPercentage,
       biggestWinUSD        |-> s.biggestWinUSD,
       biggestLossUSD       |-> s.biggestLossUSD,
       biggestWinPercent    |-> s.biggestWinPercent,
       biggestLossPercent   |-> s.biggestLossPercent,
       expectedValueUSD     |-> expectedValueUSD]

\* a normal return of a command that only prints
Viewed ==
  [exit |-> 0, err |-> "none", save |-> FALSE, positions |-> <<>>, show |-> <<>>]

\* View, had it written back what loadPositions migrated
View_SavesMigration(positions) ==
  [exit |-> 0, err |-> "none", save |-> TRUE, positions |-> positions,
   show |-> <<>>]

\* list, closed, summary: the positions loaded are printed, never saved
View(positions) == Viewed

\* the assignments to the object findActivePosition returned
SetPos(positions, i, pos) == [positions EXCEPT ![i].pos = pos]

\* the backward-compatibility initialisation of add-capital, withdraw, close
InitFields(position) ==
  LET p1 == IF ~Has(position, "capital_additions_usd")
            THEN With(position, "capital_additions_usd", 0) ELSE position
  IN  IF ~Has(p1, "withdrawn_usd") THEN With(p1, "withdrawn_usd", 0) ELSE p1

\* position.initial_value_usd || position.initial_value || 0
CleanInitialValue(position) ==
  IF OrZero(position, "initial_value_usd") # 0
  THEN position.initial_value_usd
  ELSE OrZero(position, "initial_value")

Clean(positions) ==
  Saved(SelectSeq(positions,
                  LAMBDA e : ~Gt(CleanInitialValue(e.pos), CleanCeilingUSD)),
        <<>>)

\* Remove, had it deleted every position of the token
Remove_AllOfToken(positions, args) ==
  IF Len(args) < 2 THEN Fail("usage")
  ELSE LET token == toLowerCase(args[2])
           i     == findActivePosition(positions, token)
       IN  IF i = 0 THEN Fail("notfound")
           ELSE Saved(SelectSeq(positions, LAMBDA e : ~TokenMatches(e.pos, token)),
                      <<>>)

Remove(positions, args) ==
  IF Len(args) < 2 THEN Fail("usage")
  ELSE LET token == toLowerCase(args[2])
           i     == findActivePosition(positions, token)
       IN  IF i = 0 THEN Fail("notfound")
           ELSE Saved(ObjDelete(positions, positions[i].pos.id), <<>>)

\* Reset, had it kept the old position as a closed one
Reset_ClosesOld(positions, args, t, rnd) ==
  IF Len(args) < 3 THEN Fail("usage")
  ELSE LET token           == toLowerCase(args[2])
           newInitialValue == parseFloat(args[3])
           i               == findActivePosition(positions, token)
       IN  IF isNaN(newInitialValue) THEN Fail("nan")
           ELSE IF i = 0 THEN Fail("notfound")
           ELSE LET newPosition == initializePosition(token, newInitialValue.v, t, rnd)
                    oldPosition == With(With(positions[i].pos, "is_closed", TRUE),
                                        "closed_at", t)
                IN  Saved(ObjSet(SetPos(positions, i, oldPosition),
                                 newPosition.id, newPosition),
                          <<>>)

Reset(positions, args, t, rnd) ==
  IF Len(args) < 3 THEN Fail("usage")
  ELSE LET token           == toLowerCase(args[2])
           newInitialValue == parseFloat(args[3])
           i               == findActivePosition(positions, token)
       IN  IF isNaN(newInitialValue) THEN Fail("nan")
           ELSE IF i = 0 THEN Fail("notfound")
           ELSE LET newPosition == initializePosition(token, newInitialValue.v, t, rnd)
                IN  Saved(ObjSet(ObjDelete(positions, positions[i].pos.id),
                                 newPosition.id, newPosition),
                          <<>>)

ClaimFee(positions, args, t) ==
  IF Len(args) < 3 THEN Fail("usage")
  ELSE LET token          == toLowerCase(args[2])
           feesToClaimUSD == parseFloat(args[3])
           i              == findActivePosition(positions, token)
       IN  IF isNaN(feesToClaimUSD) THEN Fail("nan")
           ELSE IF Le(feesToClaimUSD.v, 0) THEN Fail("range")
           ELSE IF i = 0 THEN Fail("notfound")
           ELSE LET position == positions[i].pos
                    p1 == With(position, "fees_claimed_usd",
                               Plus(Field(position, "fees_claimed_usd"),
                                    feesToClaimUSD.v))
                    p2 == With(p1, "last_updated", t)
                IN  Saved(SetPos(positions, i, p2), <<>>)

\* add-capital as it would be if the cached total were not recomputed
AddCapital_StaleTotal(positions, args, t) ==
  IF Len(args) < 3 THEN Fail("usage")
  ELSE LET token             == toLowerCase(args[2])
           additionalCapital == parseFloat(args[3])
           i                 == findActivePosition(positions, token)
       IN  IF isNaN(additionalCapital) THEN Fail("nan")
           ELSE IF Le(additionalCapital.v, 0) THEN Fail("range")
           ELSE IF i = 0 THEN Fail("notfound")
           ELSE LET position == InitFields(positions[i].pos)
                    p1 == With(position, "capital_additions_usd",
                               Plus(position.capital_additions_usd,
                                    additionalCapital.v))
                    p3 == With(p1, "last_updated", t)
                IN  Saved(SetPos(positions, i, p3), <<>>)

\* add-capital as it would be without the check that the amount is positive
AddCapital_AnyAmount(positions, args, t) ==
  IF Len(args) < 3 THEN Fail("usage")
  ELSE LET token             == toLowerCase(args[2])
           additionalCapital == parseFloat(args[3])
           i                 == findActivePosition(positions, token)
       IN  IF isNaN(additionalCapital) THEN Fail("nan")
           ELSE IF i = 0 THEN Fail("notfound")
           ELSE LET position == InitFields(positions[i].pos)
                    p1 == With(position, "capital_additions_usd",
                               Plus(position.capital_additions_usd,
                                    additionalCapital.v))
                    p2 == With(p1, "total_invested_usd",
                               Plus(Field(p1, "initial_value_usd"),
                                    p1.capital_additions_usd))
                    p3 == With(p2, "last_updated", t)
                IN  Saved(SetPos(positions, i, p3), <<>>)

AddCapital(positions, args, t) ==
  IF Len(args) < 3 THEN Fail("usage")
  ELSE LET token             == toLowerCase(args[2])
           additionalCapital == parseFloat(args[3])
           i                 == findActivePosition(positions, token)
       IN  IF isNaN(additionalCapital) THEN Fail("nan")
           ELSE IF Le(additionalCapital.v, 0) THEN Fail("range")
           ELSE IF i = 0 THEN Fail("notfound")
           ELSE LET position == InitFields(positions[i].pos)
                    p1 == With(position, "capital_additions_usd",
                               Plus(position.capital_additions_usd,
                                    additionalCapital.v))
                    p2 == With(p1, "total_invested_usd",
                               Plus(Field(p1, "initial_value_usd"),
                                    p1.capital_additions_usd))
                    p3 == With(p2, "last_updated", t)
                IN  Saved(SetPos(positions, i, p3), <<>>)

\* withdraw as it would be if a withdrawal reduced the invested total
Withdraw_ReducesInvested(positions, args, t) ==
  IF Len(args) < 3 THEN Fail("usage")
  ELSE LET token        == toLowerCase(args[2])
           amountToTake == parseFloat(args[3])
           i            == findActivePosition(positions, token)
       IN  IF isNaN(amountToTake) THEN Fail("nan")
           ELSE IF Le(amountToTake.v, 0) THEN Fail("range")
           ELSE IF i = 0 THEN Fail("notfound")
           ELSE LET position == InitFields(positions[i].pos)
                    p1 == With(position, "withdrawn_usd",
                               Plus(position.withdrawn_usd, amountToTake.v))
                    p2 == With(p1, "total_invested_usd",
                               Minus(Field(position, "total_invested_usd"),
                                     amountToTake.v))
                    p3 == With(p2, "last_updated", t)
                IN  Saved(SetPos(positions, i, p3), <<>>)

Withdraw(positions, args, t) ==
  IF Len(args) < 3 THEN Fail("usage")
  ELSE LET token        == toLowerCase(args[2])
           amountToTake == parseFloat(args[3])
           i            == findActivePosition(positions, token)
       IN  IF isNaN(amountToTake) THEN Fail("nan")
           ELSE IF Le(amountToTake.v, 0) THEN Fail("range")
           ELSE IF i = 0 THEN Fail("notfound")
           ELSE LET position      == InitFields(positions[i].pos)
                    totalInvested == Plus(Field(position, "initial_value_usd"),
                                          position.capital_additions_usd)
                    p1 == With(position, "withdrawn_usd",
                               Plus(position.withdrawn_usd, amountToTake.v))
                    p2 == With(p1, "total_invested_usd", totalInvested)
                    p3 == With(p2, "last_updated", t)
                IN  Saved(SetPos(positions, i, p3), <<>>)

\* close as it would be if the final PnL were computed before the final fees
\* are added
Close_PnlBeforeFees(positions, args, t) ==
  IF Len(args) < 3 THEN Fail("usage")
  ELSE LET token        == toLowerCase(args[2])
           exitValueUSD == parseFloat(args[3])
           finalFeesUSD == IF Len(args) >= 4 THEN parseFloat(args[4])
                           ELSE [nan |-> FALSE, v |-> 0]
           i            == findActivePosition(positions, token)
       IN  IF isNaN(finalFeesUSD) THEN Fail("nan")
           ELSE IF isNaN(exitValueUSD) THEN Fail("nan")
           ELSE IF Le(exitValueUSD.v, 0) THEN Fail("range")
           ELSE IF i = 0 THEN Fail("notfound")
           ELSE LET position == InitFields(positions[i].pos)
                    totalInvested      == Plus(Field(position, "initial_value_usd"),
                                               position.capital_additions_usd)
                    withdrawn          == OrZero(position, "withdrawn_usd")
                    totalValueUSD      == Plus(Plus(exitValueUSD.v, withdrawn),
                                               Field(position, "fees_claimed_usd"))
                    finalTotalPnlUSD   == Minus(totalValueUSD, totalInvested)
                    finalPnlPercentage == IF Gt(totalInvested, 0)
                                          THEN Percent(finalTotalPnlUSD, totalInvested)
                                          ELSE RatZero
                    p1 == With(position, "fees_claimed_usd",
                               Plus(Field(position, "fees_claimed_usd"),
                                    finalFeesUSD.v))
                    p2 == With(p1, "closed_at", t)
                    p3 == With(p2, "exit_value_usd", exitValueUSD.v)
                    p4 == With(p3, "final_pnl_usd", finalTotalPnlUSD)
                    p5 == With(p4, "final_pnl_percentage", finalPnlPercentage)
                    p6 == With(p5, "total_invested_usd", totalInvested)
                    p7 == With(p6, "is_closed", TRUE)
                    p8 == With(p7, "last_updated", t)
                IN  Saved(SetPos(positions, i, p8), <<>>)

Close(positions, args, t) ==
  IF Len(args) < 3 THEN Fail("usage")
  ELSE LET token        == toLowerCase(args[2])
           exitValueUSD == parseFloat(args[3])
           finalFeesUSD == IF Len(args) >= 4 THEN parseFloat(args[4])
                           ELSE [nan |-> FALSE, v |-> 0]
           i            == findActivePosition(positions, token)
       IN  IF isNaN(finalFeesUSD) THEN Fail("nan")
           ELSE IF isNaN(exitValueUSD) THEN Fail("nan")
           ELSE IF Le(exitValueUSD.v, 0) THEN Fail("range")
           ELSE IF i = 0 THEN Fail("notfound")
           ELSE LET position == InitFields(positions[i].pos)
                    p1 == With(position, "fees_claimed_usd",
                               Plus(Field(position, "fees_claimed_usd"),
                                    finalFeesUSD.v))
                    totalInvested      == Plus(Field(p1, "initial_value_usd"),
                                               p1.capital_additions_usd)
                    withdrawn          == OrZero(p1, "withdrawn_usd")
                    totalValueUSD      == Plus(Plus(exitValueUSD.v, withdrawn),
                                               p1.fees_claimed_usd)
                    finalTotalPnlUSD   == Minus(totalValueUSD, totalInvested)
                    finalPnlPercentage == IF Gt(totalInvested, 0)
                                          THEN Percent(finalTotalPnlUSD, totalInvested)
                                          ELSE RatZero
                    p2 == With(p1, "closed_at", t)
                    p3 == With(p2, "exit_value_usd", exitValueUSD.v)
                    p4 == With(p3, "final_pnl_usd", finalTotalPnlUSD)
                    p5 == With(p4, "final_pnl_percentage", finalPnlPercentage)
                    p6 == With(p5, "total_invested_usd", totalInvested)
                    p7 == With(p6, "is_closed", TRUE)
                    p8 == With(p7, "last_updated", t)
                IN  Saved(SetPos(positions, i, p8), <<>>)

\* the default branch as it would be if it never looked for an active position
Record_NoLookup(positions, args, t, rnd, solPriceUSD) ==
  IF Len(args) < 2 THEN Fail("usage")
  ELSE LET token           == toLowerCase(args[1])
           currentValueUSD == parseFloat(args[2])
           feesToAddUSD    == IF Len(args) >= 3 THEN parseFloat(args[3])
                              ELSE [nan |-> FALSE, v |-> 0]
       IN  IF isNaN(currentValueUSD) THEN Fail("nan")
           ELSE IF isNaN(feesToAddUSD) THEN Fail("nan")
           ELSE LET position == initializePosition(token, currentValueUSD.v, t, rnd)
                IN  Displayed(ObjSet(positions, position.id, position),
                              displayPositionInfo(token, position, currentValueUSD.v,
                                                  t, solPriceUSD))

\* Record, had it credited the fees argument to the position it creates
Record_FeesOnCreate(positions, args, t, rnd, solPriceUSD) ==
  IF Len(args) < 2 THEN Fail("usage")
  ELSE LET token           == toLowerCase(args[1])
           currentValueUSD == parseFloat(args[2])
           feesToAddUSD    == IF Len(args) >= 3 THEN parseFloat(args[3])
                              ELSE [nan |-> FALSE, v |-> 0]
           i               == findActivePosition(positions, token)
       IN  IF isNaN(currentValueUSD) THEN Fail("nan")
           ELSE IF isNaN(feesToAddUSD) THEN Fail("nan")
           ELSE LET created  == initializePosition(token, currentValueUSD.v, t, rnd)
                    position == IF i = 0 THEN created ELSE positions[i].pos
                    p1 == With(position, "fees_claimed_usd",
                               Plus(Field(position, "fees_claimed_usd"),
                                    feesToAddUSD.v))
                    p2 == With(p1, "last_updated", t)
                IN  Displayed(IF i = 0 THEN ObjSet(positions, p2.id, p2)
                              ELSE SetPos(positions, i, p2),
                              displayPositionInfo(token, p2, currentValueUSD.v,
                                                  t, solPriceUSD))

\* Record, had it kept the current value in the position it updates
Record_StoresValue(positions, args, t, rnd, solPriceUSD) ==
  IF Len(args) < 2 THEN Fail("usage")
  ELSE LET token           == toLowerCase(args[1])
           currentValueUSD == parseFloat(args[2])
           feesToAddUSD    == IF Len(args) >= 3 THEN parseFloat(args[3])
                              ELSE [nan |-> FALSE, v |-> 0]
           i               == findActivePosition(positions, token)
       IN  IF isNaN(currentValueUSD) THEN Fail("nan")
           ELSE IF isNaN(feesToAddUSD) THEN Fail("nan")
           ELSE IF i = 0
           THEN LET position == initializePosition(token, currentValueUSD.v, t, rnd)
                IN  Displayed(ObjSet(positions, position.id, position),
                              displayPositionInfo(token, position, currentValueUSD.v,
                                                  t, solPriceUSD))
           ELSE LET p1 == With(positions[i].pos, "fees_claimed_usd",
                               Plus(Field(positions[i].pos, "fees_claimed_usd"),
                                    feesToAddUSD.v))
                    p2 == With(p1, "last_updated", t)
                    p3 == With(p2, "current_value_usd", currentValueUSD.v)
                IN  Displayed(SetPos(positions, i, p3),
                              displayPositionInfo(token, p3, currentValueUSD.v,
                                                  t, solPriceUSD))

\* the default branch of main: <token> <current value> [fees]
Record(positions, args, t, rnd, solPriceUSD) ==
  IF Len(args) < 2 THEN Fail("usage")
  ELSE LET token           == toLowerCase(args[1])
           currentValueUSD == parseFloat(args[2])
           feesToAddUSD    == IF Len(args) >= 3 THEN parseFloat(args[3])
                              ELSE [nan |-> FALSE, v |-> 0]
           i               == findActivePosition(positions, token)
       IN  IF isNaN(currentValueUSD) THEN Fail("nan")
           ELSE IF isNaN(feesToAddUSD) THEN Fail("nan")
           ELSE IF i = 0
           THEN LET position == initializePosition(token, currentValueUSD.v, t, rnd)
                IN  Displayed(ObjSet(positions, position.id, position),
                              displayPositionInfo(token, position, currentValueUSD.v,
                                                  t, solPriceUSD))
           ELSE LET p1 == With(positions[i].pos, "fees_claimed_usd",
                               Plus(Field(positions[i].pos, "fees_claimed_usd"),
                                    feesToAddUSD.v))
                    p2 == With(p1, "last_updated", t)
                IN  Displayed(SetPos(positions, i, p2),
                              displayPositionInfo(token, p2, currentValueUSD.v,
                                                  t, solPriceUSD))

---------------------------------------------------------------------------
(* The runs of the program. *)

\* the final fallback of getSOLPriceUSD
FallbackPriceUSD == 185

\* the prices getSOLPriceUSD hands to a run
OraclePrices == {FallbackPriceUSD}

ViewWords == {"list", "closed", "summary", "clean"}

\* the words tried as the optional fees argument of record and close
FeeWords == {"-1", "0", "1", "x"}

\* a token and a number: every number with the tokens in lower case, one
\* with the token in upper case, which main lowers before anything else
TokenNum == ({"a", "b"} \X NumWords) \cup {<<"A", "1">>}

\* the command lines explored
Argv ==
  {<<>>}
    \cup {<<c>> : c \in CommandWords \cup TokenWords}
    \cup {<<c, k>> : c \in CommandWords \ ViewWords, k \in TokenWords}
    \cup {<<c>> \o kx : c \in CommandWords \ (ViewWords \cup {"remove"}),
                        kx \in TokenNum}
    \cup {<<"close">> \o kx \o <<y>> : kx \in TokenNum, y \in FeeWords}
    \cup TokenNum
    \cup {kx \o <<y>> : kx \in TokenNum, y \in FeeWords}

\* const command = args[0].toLowerCase()
CommandOf(args) == toLowerCase(args[1])

\* the command lines main dispatches to the branch of a command word
ArgvOf(c) == {args \in Argv : Len(args) >= 1 /\ CommandOf(args) = c}

ArgvNone       == {args \in Argv : Len(args) < 1}
ArgvList       == ArgvOf("list")
ArgvClosed     == ArgvOf("closed")
ArgvSummary    == ArgvOf("summary")
ArgvClean      == ArgvOf("clean")
ArgvRemove     == ArgvOf("remove")
ArgvReset      == ArgvOf("reset")
ArgvClaimFee   == ArgvOf("claim-fee")
ArgvAddCapital == ArgvOf("add-capital")
ArgvWithdraw   == ArgvOf("withdraw")
ArgvClose      == ArgvOf("close")
ArgvRecord     == {args \in Argv : Len(args) >= 1 /\ CommandOf(args) \notin CommandWords}

\* the outcome of main on a command line, for the positions it loaded
main(positions, args, t, rnd, solPriceUSD) ==
  IF Len(args) < 1 THEN Fail("usage")
  ELSE CASE CommandOf(args) = "list"        -> View(positions)
         [] CommandOf(args) = "closed"      -> View(positions)
         [] CommandOf(args) = "summary"     -> View(positions)
         [] CommandOf(args) = "clean"       -> Clean(positions)
         [] CommandOf(args) = "remove"      -> Remove(positions, args)
         [] CommandOf(args) = "reset"       -> Reset(positions, args, t, rnd)
         [] CommandOf(args) = "claim-fee"   -> ClaimFee(positions, args, t)
         [] CommandOf(args) = "add-capital" -> AddCapital(positions, args, t)
         [] CommandOf(args) = "withdraw"    -> Withdraw(positions, args, t)
         [] CommandOf(args) = "close"       -> Close(positions, args, t)
         [] OTHER -> Record(positions, args, t, rnd, solPriceUSD)

---------------------------------------------------------------------------
(* The price oracle.  A cache is [price, timestamp]; the time is Date.now() *)
(* in seconds.                                                              *)

\* 5 * 60 * 1000 milliseconds
CACHE_DURATION == 300

\* the age, in minutes, from which a cached price is no longer used when the
\* request fails
FallbackMinutes == 60

\* Math.round(seconds / 60)
RoundMinutes(seconds) == Floor(seconds + 30, 60)

loadPriceCache(f) == f

\* JSON.stringify(cache), as the next loadPriceCache reads it
savePriceCache(cache) ==
  <<[price |-> JsonNumber(cache.price), timestamp |-> cache.timestamp]>>

\* getSOLPriceUSD up to the request, had it used a cache that is exactly
\* CACHE_DURATION old
getSOLPriceUSD_cached_AtMost(memory, f, t) ==
  IF memory # <<>> /\ t - memory[1].timestamp <= CACHE_DURATION
  THEN [done |-> TRUE, price |-> memory[1].price, via |-> "memory",
        cache |-> memory]
  ELSE IF memory # <<>>
  THEN [done |-> FALSE, price |-> 0, via |-> "none", cache |-> memory]
  ELSE LET loaded == loadPriceCache(f)
       IN  IF loaded # <<>> /\ t - loaded[1].timestamp <= CACHE_DURATION
           THEN [done |-> TRUE, price |-> loaded[1].price, via |-> "file",
                 cache |-> loaded]
           ELSE [done |-> FALSE, price |-> 0, via |-> "none", cache |-> loaded]

\* getSOLPriceUSD up to the request: the price of a cache that is younger
\* than CACHE_DURATION, the one in memory first, then the one in the file
getSOLPriceUSD_cached(memory, f, t) ==
  IF memory # <<>> /\ t - memory[1].timestamp < CACHE_DURATION
  THEN [done |-> TRUE, price |-> memory[1].price, via |-> "memory",
        cache |-> memory]
  ELSE IF memory # <<>>
  THEN [done |-> FALSE, price |-> 0, via |-> "none", cache |-> memory]
  ELSE LET loaded == loadPriceCache(f)
       IN  IF loaded # <<>> /\ t - loaded[1].timestamp < CACHE_DURATION
           THEN [done |-> TRUE, price |-> loaded[1].price, via |-> "file",
                 cache |-> loaded]
           ELSE [done |-> FALSE, price |-> 0, via |-> "none", cache |-> loaded]

\* getSOLPriceUSD, had the request been made outside the try block
getSOLPriceUSD_NoCatch(memory, response, t) ==
  [price |-> NaN, via |-> "none", cache |-> memory, write |-> FALSE,
   rejected |-> TRUE]

\* the catch block of getSOLPriceUSD
getSOLPriceUSD_caught(memory, response, t) ==
  IF memory # <<>> /\ Gt(memory[1].price, 0)
  THEN [price |-> memory[1].price, via |-> "cache", cache |-> memory,
        write |-> FALSE, rejected |-> FALSE]
  ELSE [price |-> FallbackPriceUSD, via |-> "fallback", cache |-> memory,
        write |-> FALSE, rejected |-> FALSE]

\* getSOLPriceUSD from the settling of the request, at time t
getSOLPriceUSD_fetched(memory, response, t) ==
  IF response.kind \in {"thrown", "timeout"}
  THEN getSOLPriceUSD_caught(memory, response, t)
  ELSE IF /\ response.kind = "ok"
          /\ response.usd \notin {NaN, 0}
          /\ Gt(response.usd, 0)
  THEN [price |-> response.usd, via |-> "fetched",
        cache |-> <<[price |-> response.usd, timestamp |-> t]>>,
        write |-> TRUE, rejected |-> FALSE]
  ELSE IF /\ memory # <<>>
          /\ Gt(memory[1].price, 0)
          /\ RoundMinutes(t - memory[1].timestamp) < FallbackMinutes
  THEN [price |-> memory[1].price, via |-> "cache", cache |-> memory,
        write |-> FALSE, rejected |-> FALSE]
  ELSE [price |-> FallbackPriceUSD, via |-> "fallback", cache |-> memory,
        write |-> FALSE, rejected |-> FALSE]

InitOracle ==
  /\ solPriceCache  = <<>>
  /\ priceCacheFile = <<>>
  /\ oracle = [pc |-> "idle", price |-> 0, via |-> "none", upstream |-> "none"]

Init ==
  /\ file  = [exists |-> FALSE, entries |-> <<>>]
  /\ now   = 0
  /\ last  = [exit |-> 0, err |-> "none"]
  /\ shown = <<>>
  /\ InitOracle
  /\ running = <<>>

\* The end of a run that began at time t.  The clock is logical: it counts
\* the runs that wrote the file, the only runs whose time leaves a trace.
Exit(t, out) ==
  /\ file'  = IF out.save THEN savePositions(out.positions) ELSE file
  /\ now'   = IF out.save THEN t ELSE now
  /\ last'  = [exit |-> out.exit, err |-> out.err]
  /\ shown' = out.show
  /\ UNCHANGED oracleVars
  /\ UNCHANGED running

\* args.length < 1: the usage text, process.exit(1)
main_usage(args) ==
  /\ now < MaxClock
  /\ Exit(now + 1, Fail("usage"))

main_list(args) ==
  /\ now < MaxClock
  /\ Exit(now + 1, View(loadPositions(file, now + 1)))

main_closed(args) ==
  /\ now < MaxClock
  /\ Exit(now + 1, View(loadPositions(file, now + 1)))

main_summary(args) ==
  /\ now < MaxClock
  /\ Exit(now + 1, View(loadPositions(file, now + 1)))

main_clean(args) ==
  /\ now < MaxClock
  /\ Exit(now + 1, Clean(loadPositions(file, now + 1)))

main_remove(args) ==
  /\ now < MaxClock
  /\ Exit(now + 1, Remove(loadPositions(file, now + 1), args))

main_reset(args, rnd) ==
  /\ now < MaxClock
  /\ Exit(now + 1, Reset(loadPositions(file, now + 1), args, now + 1, rnd))

main_claim_fee(args) ==
  /\ now < MaxClock
  /\ Exit(now + 1, ClaimFee(loadPositions(file, now + 1), args, now + 1))

main_add_capital(args) ==
  /\ now < MaxClock
  /\ Exit(now + 1, AddCapital(loadPositions(file, now + 1), args, now + 1))

main_withdraw(args) ==
  /\ now < MaxClock
  /\ Exit(now + 1, Withdraw(loadPositions(file, now + 1), args, now + 1))

main_close(args) ==
  /\ now < MaxClock
  /\ Exit(now + 1, Close(loadPositions(file, now + 1), args, now + 1))

main_record(args, rnd, solPriceUSD) ==
  /\ now < MaxClock
  /\ Exit(now + 1,
          Record(loadPositions(file, now + 1), args, now + 1, rnd, solPriceUSD))

Next ==
  \/ \E args \in ArgvNone : main_usage(args)
  \/ \E args \in ArgvList : main_list(args)
  \/ \E args \in ArgvClosed : main_closed(args)
  \/ \E args \in ArgvSummary : main_summary(args)
  \/ \E args \in ArgvClean : main_clean(args)
  \/ \E args \in ArgvRemove : main_remove(args)
  \/ \E args \in ArgvReset, rnd \in RandomSuffixes : main_reset(args, rnd)
  \/ \E args \in ArgvClaimFee : main_claim_fee(args)
  \/ \E args \in ArgvAddCapital : main_add_capital(args)
  \/ \E args \in ArgvWithdraw : main_withdraw(args)
  \/ \E args \in ArgvClose : main_close(args)
  \/ \E args \in ArgvRecord, rnd \in RandomSuffixes, solPriceUSD \in OraclePrices :
       main_record(args, rnd, solPriceUSD)

Spec == Init /\ [][Next]_vars

---------------------------------------------------------------------------
(* The commands that take a number, on one token, with the words that      *)
(* parseFloat turns into a number that is not finite among the arguments.  *)

NonFiniteWords == {"1", "1x", "x", "Infinity", "-Infinity"}

NonFiniteArgv ==
  {<<c, "a", x>> : c \in {"reset", "claim-fee", "add-capital", "withdraw", "close"},
                   x \in NonFiniteWords}
    \cup {<<"close", "a", x, y>> : x \in {"1", "Infinity"}, y \in NonFiniteWords}
    \cup {<<"a", x>> : x \in NonFiniteWords}
    \cup {<<"a", x, y>> : x \in {"1", "Infinity"}, y \in NonFiniteWords}

NonFiniteArgvOf(c) == {args \in NonFiniteArgv : CommandOf(args) = c}

NextNonFinite ==
  \/ \E args \in NonFiniteArgvOf("reset"), rnd \in RandomSuffixes :
       main_reset(args, rnd)
  \/ \E args \in NonFiniteArgvOf("claim-fee") : main_claim_fee(args)
  \/ \E args \in NonFiniteArgvOf("add-capital") : main_add_capital(args)
  \/ \E args \in NonFiniteArgvOf("withdraw") : main_withdraw(args)
  \/ \E args \in NonFiniteArgvOf("close") : main_close(args)
  \/ \E args \in NonFiniteArgvOf("a"), rnd \in RandomSuffixes,
          solPriceUSD \in OraclePrices :
       main_record(args, rnd, solPriceUSD)

SpecNonFinite == Init /\ [][NextNonFinite]_vars

---------------------------------------------------------------------------
(* The commands that replace, delete, close and create positions, on a     *)
(* store that earlier runs of the program wrote: the store may already     *)
(* hold closed positions next to the active ones.                          *)

\* the earlier command lines, oldest first
Histories ==
  {<<>>,
   << <<"a", "1">>, <<"close", "a", "10">> >>,
   << <<"a", "1">>, <<"close", "a", "10">>, <<"A", "500">> >>,
   << <<"a", "1">>, <<"close", "a", "10">>, <<"a", "500">>, <<"b", "1">> >>,
   << <<"b", "1">>, <<"close", "b", "1">>, <<"a", "1">>,
      <<"close", "a", "500", "1">>, <<"a", "10">> >>}

\* the file after the runs h[k], h[k+1], ... on the file f; the last of
\* them ran at time 0
RECURSIVE Replay(_, _, _)
Replay(f, h, k) ==
  IF k > Len(h) THEN f
  ELSE LET t   == k - Len(h)
           out == main(loadPositions(f, t), h[k], t,
                       CHOOSE rnd \in RandomSuffixes : TRUE, FallbackPriceUSD)
       IN  Replay(IF out.save THEN savePositions(out.positions) ELSE f, h, k + 1)

InitHistory ==
  /\ \E h \in Histories :
       file = Replay([exists |-> FALSE, entries |-> <<>>], h, 1)
  /\ now   = 0
  /\ last  = [exit |-> 0, err |-> "none"]
  /\ shown = <<>>
  /\ InitOracle
  /\ running = <<>>

HistoryArgv ==
  {<<"remove">>, <<"reset">>}
    \cup {<<c, k>> : c \in {"remove", "reset"}, k \in TokenWords}
    \cup {<<"reset", k, x>> : k \in TokenWords, x \in {"1", "10001", "x"}}
    \cup {<<"close", k, "10">> : k \in TokenWords}
    \cup {<<k, x>> : k \in TokenWords, x \in {"1", "10001", "x"}}
    \cup {<<k, "1", y>> : k \in TokenWords, y \in FeeWords}

HistoryArgvOf(c) == {args \in HistoryArgv : CommandOf(args) = c}

HistoryRecord == {args \in HistoryArgv : CommandOf(args) \notin CommandWords}

NextHistory ==
  \/ \E args \in HistoryArgvOf("remove") : main_remove(args)
  \/ \E args \in HistoryArgvOf("reset"), rnd \in RandomSuffixes :
       main_reset(args, rnd)
  \/ \E args \in HistoryArgvOf("close") : main_close(args)
  \/ \E args \in HistoryRecord, rnd \in RandomSuffixes,
        solPriceUSD \in OraclePrices :
       main_record(args, rnd, solPriceUSD)

SpecHistory == InitHistory /\ [][NextHistory]_vars

---------------------------------------------------------------------------
(* The commands that create positions, with the two inputs of              *)
(* generatePositionId left to the environment: Date.now() is the system    *)
(* clock, which a later run can read at the value an earlier run read      *)
(* (the clock is not monotonic), and Math.random() is any suffix.          *)

IdSuffixes == {"k3x9", "p0q2"}

\* the number of stored positions up to which record is run
MaxStored == 2

\* the values Date.now() can have in the next run
IdTimes == {now, now + 1}

IdArgv ==
  {<<k, "1">> : k \in {"a", "b"}}
    \cup {<<"close", k, "1">> : k \in {"a", "b"}}
    \cup {<<"reset", k, "10">> : k \in {"a", "b"}}

ids_record(args, t, rnd) ==
  /\ now < MaxClock
  /\ Len(file.entries) < MaxStored
  /\ Exit(t, Record(loadPositions(file, t), args, t, rnd, FallbackPriceUSD))

ids_reset(args, t, rnd) ==
  /\ now < MaxClock
  /\ Exit(t, Reset(loadPositions(file, t), args, t, rnd))

ids_close(args, t) ==
  /\ now < MaxClock
  /\ Exit(t, Close(loadPositions(file, t), args, t))

NextIds ==
  \/ \E args \in {a \in IdArgv : Len(a) = 2}, t \in IdTimes, rnd \in IdSuffixes :
       ids_record(args, t, rnd)
  \/ \E args \in {a \in IdArgv : a[1] = "reset"}, t \in IdTimes, rnd \in IdSuffixes :
       ids_reset(args, t, rnd)
  \/ \E args \in {a \in IdArgv : a[1] = "close"}, t \in IdTimes :
       ids_close(args, t)

SpecIds == Init /\ [][NextIds]_vars

---------------------------------------------------------------------------
(* The calls of getSOLPriceUSD.  A call runs up to the request in one step *)
(* and from the settling of the request in another; between two calls time *)
(* passes, and the process may end, which empties the cache in memory.     *)

\* the clock stops the calls after this many seconds
MaxPriceClock == 4200

\* the seconds that pass before a call; a request settles within the second
\* it was made in, or is ended by AbortSignal.timeout(10000)
PriceWaits == {0, 150, 3600}

\* what the request settles with: a response that is ok, with the value of
\* data.solana?.usd (NaN stands for undefined), a response that is not ok,
\* an exception, the timeout
Responses ==
  {[kind |-> "ok", usd |-> usd] : usd \in {150, 200, 0, -1, NaN}}
    \cup {[kind |-> k, usd |-> NaN] : k \in {"notok", "thrown", "timeout"}}

\* the upstream request failed
Failures == {"notok", "nopayload", "thrown", "timeout"}

UpstreamOf(response) ==
  IF response.kind # "ok" THEN response.kind
  ELSE IF response.usd \in {150, 200} THEN "ok" ELSE "nopayload"

price_call(wait) ==
  /\ oracle.pc \in {"idle", "returned"}
  /\ now + wait <= MaxPriceClock
  /\ LET t == now + wait
         r == getSOLPriceUSD_cached(solPriceCache, priceCacheFile, t)
     IN  /\ now' = t
         /\ solPriceCache' = r.cache
         /\ oracle' = [pc       |-> IF r.done THEN "returned" ELSE "fetching",
                       price    |-> r.price,
                       via      |-> r.via,
                       upstream |-> "none"]
  /\ UNCHANGED <<file, last, shown, priceCacheFile, running>>

price_settle(response, written) ==
  /\ oracle.pc = "fetching"
  /\ LET r == getSOLPriceUSD_fetched(solPriceCache, response, now)
     IN  /\ solPriceCache' = r.cache
         /\ priceCacheFile' = IF r.write /\ written
                              THEN savePriceCache(r.cache[1])
                              ELSE priceCacheFile
         /\ oracle' = [pc       |-> IF r.rejected THEN "rejected" ELSE "returned",
                       price    |-> r.price,
                       via      |-> r.via,
                       upstream |-> UpstreamOf(response)]
  /\ UNCHANGED <<file, now, last, shown, running>>

\* the process ends and the next one starts
price_exit ==
  /\ oracle.pc \in {"returned", "rejected"}
  /\ solPriceCache # <<>>
  /\ solPriceCache' = <<>>
  /\ oracle' = [pc |-> "idle", price |-> 0, via |-> "none", upstream |-> "none"]
  /\ UNCHANGED <<file, now, last, shown, priceCacheFile, running>>

NextPrice ==
  \/ \E wait \in PriceWaits : price_call(wait)
  \/ \E response \in Responses, written \in BOOLEAN :
       price_settle(response, written)
  \/ price_exit

SpecPrice == Init /\ [][NextPrice]_vars

\* a request settles: the timeout of the request ends it after 10 seconds
SpecPriceFair ==
  /\ SpecPrice
  /\ WF_vars(\E response \in Responses, written \in BOOLEAN :
                price_settle(response, written))

---------------------------------------------------------------------------
(* The PnL engine and the suggestion engine on their own: the store holds   *)
(* one active position with any history of capital flows, and the position  *)
(* is displayed once, at any current value, or closed, at any exit value    *)
(* and final fees.                                                          *)

PnlInitials  == {-100, 0, 100, 200}
PnlAdditions == {0, 100}
PnlWithdrawn == {0, 50}
PnlFees      == {0, 5, 40}
PnlValues    == {5 * k : k \in 0..MaxValueSteps}
PnlPrices    == {0, FallbackPriceUSD}

\* Date.now() when the position is displayed; the position was created at 0
PnlTimes == {0, RecentDays * SecPerDay, (RecentDays + 1) * SecPerDay - 1,
             (RecentDays + 1) * SecPerDay}

PnlPosition(initial, additions, withdrawn, fees) ==
  LET fresh == initializePosition("a", initial, 0, "k3x9")
      p1    == With(fresh, "capital_additions_usd", additions)
      p2    == With(p1, "withdrawn_usd", withdrawn)
      p3    == With(p2, "fees_claimed_usd", fees)
  IN  With(p3, "total_invested_usd", initial + additions)

InitPnl ==
  /\ \E initial \in PnlInitials, additions \in PnlAdditions,
        withdrawn \in PnlWithdrawn, fees \in PnlFees :
       LET position == PnlPosition(initial, additions, withdrawn, fees)
       IN  file = savePositions(<<[key |-> position.id, pos |-> position]>>)
  /\ now \in PnlTimes
  /\ last  = [exit |-> 0, err |-> "none"]
  /\ shown = <<>>
  /\ InitOracle
  /\ running = <<>>

\* the close command lines tried on the position
PnlCloseArgv ==
  {<<"close", "a", x>> : x \in {"0", "1", "500", "x"}}
    \cup {<<"close", "a", x, y>> : x \in {"0", "1", "500", "x"},
                                  y \in {"-1", "0", "10", "x"}}

pnl_display(currentValueUSD, solPriceUSD) ==
  /\ shown = <<>>
  /\ LET position == loadPositions(file, now)[1].pos
     IN  /\ ~IsClosed(position)
         /\ shown' = displayPositionInfo(position.token, position, currentValueUSD,
                                         now, solPriceUSD).printed
  /\ UNCHANGED <<file, now, last>>
  /\ UNCHANGED oracleVars
  /\ UNCHANGED running

pnl_close(args) ==
  /\ shown = <<>>
  /\ Exit(now + 1, Close(loadPositions(file, now + 1), args, now + 1))

NextPnl ==
  \/ \E currentValueUSD \in PnlValues, solPriceUSD \in PnlPrices :
       pnl_display(currentValueUSD, solPriceUSD)
  \/ \E args \in PnlCloseArgv : pnl_close(args)

SpecPnl == InitPnl /\ [][NextPnl]_vars

---------------------------------------------------------------------------
(* The commands on a store that an earlier version of the program wrote,   *)
(* or that a crash or an editor left unreadable.  The earlier version      *)
(* keyed the store by token and kept capital_reduction_usd; a version      *)
(* between the two kept profit_taken_usd next to it.                        *)

\* initializePosition of the earlier version, then its add-capital and
\* withdraw commands
initializePosition_Legacy(token, initialValueUSD, additions, reductions, t) ==
  [token                 |-> token,
   initial_value_usd     |-> initialValueUSD,
   fees_claimed_usd      |-> 0,
   created_at            |-> t,
   last_updated          |-> t,
   capital_additions_usd |-> additions,
   capital_reduction_usd |-> reductions,
   total_invested_usd    |-> initialValueUSD + additions - reductions]

LegacyPositions(token) ==
  LET written == {initializePosition_Legacy(token, v, a, r, -1) :
                    v \in {500, 10001}, a \in {0, 10}, r \in {0, 1}}
  IN  IF token = "b"
      THEN {initializePosition_Legacy(token, 500, 0, 1, -2)}
      ELSE written
             \cup {With(p, "profit_taken_usd", 1) :
                     p \in {q \in written : q.initial_value_usd = 500}}
             \cup {[initial_value_usd |-> 500, fees_claimed_usd |-> 1,
                    last_updated |-> -1]}

\* the positions of the current format: one active, one closed
CurrentPositions(token) ==
  LET fresh == initializePosition(token, 500, -1, CHOOSE rnd \in RandomSuffixes : TRUE)
      shut  == Close(<<[key |-> fresh.id, pos |-> fresh]>>,
                     <<"close", token, "10">>, 0).positions[1].pos
  IN  IF token = "b" THEN {fresh} ELSE {fresh, JsonPosition(shut)}

StoredEntries ==
  UNION {{[key |-> <<token>>, pos |-> p] : p \in LegacyPositions(token)}
           \cup {[key |-> p.id, pos |-> p] : p \in CurrentPositions(token)} :
         token \in {"a", "b"}}

\* the stores of one and of two entries
StoredFiles ==
  {<<e>> : e \in StoredEntries}
    \cup {<<ed[1], ed[2]>> :
            ed \in {x \in StoredEntries \X StoredEntries : x[1].key # x[2].key}}

\* the most recent run was one of the earlier version, or none
InitMigrate ==
  /\ \E entries \in StoredFiles :
       \/ file = [exists |-> TRUE, entries |-> entries]
       \/ file = [exists |-> TRUE, entries |-> entries, parses |-> FALSE]
  /\ now   = 0
  /\ last  = [exit |-> 0, err |-> "none", by |-> "earlier"]
  /\ shown = <<>>
  /\ InitOracle
  /\ running = <<>>

MigrateRecord == {<<"a", "1">>, <<"b", "10001">>}

NextMigrate ==
  \/ \E args \in ArgvList : main_list(args)
  \/ \E args \in ArgvClosed : main_closed(args)
  \/ \E args \in ArgvSummary : main_summary(args)
  \/ \E args \in ArgvClean : main_clean(args)
  \/ \E args \in MigrateRecord, rnd \in RandomSuffixes :
       main_record(args, rnd, FallbackPriceUSD)

SpecMigrate == InitMigrate /\ [][NextMigrate]_vars

---------------------------------------------------------------------------
(* The summary command on a store of closed positions: the statistics of   *)
(* each of the last seven days that saw a position closed, then those of   *)
(* all closed positions.                                                    *)

\* the days of the daily breakdown
SummaryDays == 7

\* the calendar day of a time
DayOf(t) == Floor(t, SecPerDay)

\* the stored form of a position recorded at initial and closed at exit
ClosedEntry(initial, exit, created, closed) ==
  LET rnd      == CHOOSE r \in RandomSuffixes : TRUE
      recorded == Record(<<>>, <<"a", initial>>, created, rnd, FallbackPriceUSD)
      out      == Close(recorded.positions, <<"close", "a", exit>>, closed)
  IN  savePositions(out.positions).entries[1]

\* what is invested and what comes back, and the day of the closing
Trades ==
  {<<"100", "200", 0>>, <<"100", "50", 0>>, <<"100", "120", -SecPerDay>>,
   <<"100", "100", 0>>, <<"-1", "50", -SecPerDay>>, <<"Infinity", "50", 0>>}

MaxTrades == 3

\* the stores of one to MaxTrades closed positions, the k-th of them
\* created at the time -2 * SecPerDay - k
SummaryStores ==
  UNION {{[k \in 1..n |-> ClosedEntry(h[k][1], h[k][2], -2 * SecPerDay - k, h[k][3])] :
            h \in [1..n -> Trades]} : n \in 1..MaxTrades}

InitSummary ==
  /\ \E entries \in SummaryStores : file = [exists |-> TRUE, entries |-> entries]
  /\ now   = 0
  /\ last  = [exit |-> 0, err |-> "none"]
  /\ shown = <<>>
  /\ InitOracle
  /\ running = <<>>

\* one section of the report
SummarySection(title, positions) ==
  [title |-> title, of |-> positions, stats |-> calculateSummaryStats(positions)]

RECURSIVE DailySections(_, _, _)
DailySections(closedPositions, today, i) ==
  IF i >= SummaryDays THEN <<>>
  ELSE LET dayPositions ==
             SelectSeq(closedPositions,
                       LAMBDA position : /\ Has(position, "closed_at")
                                         /\ DayOf(position.closed_at) = today - i)
       IN  (IF dayPositions # <<>> THEN <<SummarySection(i, dayPositions)>> ELSE <<>>)
             \o DailySections(closedPositions, today, i + 1)

showSummary(positions, t) ==
  LET closedPositions == SelectSeq(Values(positions), IsClosed)
  IN  IF closedPositions = <<>> THEN <<>>
      ELSE DailySections(closedPositions, DayOf(t), 0)
             \o <<SummarySection(SummaryDays, closedPositions)>>

\* the summary command, with what it prints
summary_stats ==
  /\ shown = <<>>
  /\ shown' = showSummary(loadPositions(file, now + 1), now + 1)
  /\ last'  = [exit |-> 0, err |-> "none"]
  /\ UNCHANGED <<file, now>>
  /\ UNCHANGED oracleVars
  /\ UNCHANGED running

NextSummary == summary_stats

SpecSummary == InitSummary /\ [][NextSummary]_vars

---------------------------------------------------------------------------
(* Several invocations at once.  Each is a process of its own: it reads    *)
(* the whole file when it starts, works on its copy, and replaces the      *)
(* whole file when it saves.  Between the read of one and its write the    *)
(* other can read and write.  writeFileSync truncates the file before it   *)
(* writes, so a process that reads while another writes can find a text    *)
(* that does not parse, which loadPositions turns into the empty store.    *)

Procs == {1, 2}

RaceArgv ==
  {<<"a", "1">>, <<"b", "1">>, <<"close", "a", "10">>, <<"claim-fee", "a", "1">>,
   <<"add-capital", "a", "1">>, <<"reset", "a", "10">>, <<"remove", "a">>}

Loading == {p \in DOMAIN running : running[p].pc = "loaded"}

\* the store a process works on, had it been read again just before the save
Snapshot_Reread(p) == loadPositions(file, running[p].t)

\* the store a process works on: the one it loaded when it started
Snapshot(p) == running[p].loaded

\* main up to the end of loadPositions
race_load(p, args, torn) ==
  /\ p \notin DOMAIN running
  /\ now + Cardinality(Loading) < MaxClock
  /\ torn => Loading # {}
  /\ running' = (p :> [pc     |-> "loaded",
                       args   |-> args,
                       t      |-> now + 1,
                       loaded |-> IF torn THEN <<>>
                                  ELSE loadPositions(file, now + 1)])
                  @@ running
  /\ UNCHANGED <<file, now, last, shown>>
  /\ UNCHANGED oracleVars

\* main from the end of loadPositions to the end of the process
race_save(p, rnd) ==
  /\ p \in Loading
  /\ LET out == main(Snapshot(p), running[p].args, running[p].t, rnd,
                     FallbackPriceUSD)
     IN  /\ file'  = IF out.save THEN savePositions(out.positions) ELSE file
         /\ now'   = IF out.save THEN now + 1 ELSE now
         /\ last'  = [exit |-> out.exit, err |-> out.err]
         /\ shown' = out.show
         /\ running' = [running EXCEPT ![p] =
                          [pc |-> "ended", args |-> running[p].args,
                           t |-> running[p].t, loaded |-> running[p].loaded,
                           exit |-> out.exit, saved |-> out.save,
                           order |-> now']]
  /\ UNCHANGED oracleVars

\* the invocations that ended are forgotten once none is in flight
race_end ==
  /\ running # <<>>
  /\ Loading = {}
  /\ running' = <<>>
  /\ UNCHANGED <<file, now, last, shown>>
  /\ UNCHANGED oracleVars

NextRace ==
  \/ \E p \in Procs, args \in RaceArgv, torn \in BOOLEAN : race_load(p, args, torn)
  \/ \E p \in Procs, rnd \in RandomSuffixes : race_save(p, rnd)
  \/ race_end

SpecRace == Init /\ [][NextRace]_vars

---------------------------------------------------------------------------
(* Properties. *)

\* the positions the file holds
Stored == [i \in 1..Len(file.entries) |-> file.entries[i].pos]

StoredIdx == 1..Len(file.entries)

\* case-insensitive equality of two token words, independent of toLowerCase
SameToken(x, y) ==
  \/ x = y
  \/ {x, y} = {"a", "A"}
  \/ {x, y} = {"b", "B"}

\* C1: in every state reached from the empty store by runs of the commands,
\* every stored position has total_invested_usd = initial_value_usd +
\* capital_additions_usd.
C1_TotalInvested ==
  \A i \in StoredIdx :
    Stored[i].total_invested_usd
      = Stored[i].initial_value_usd + Stored[i].capital_additions_usd

\* add-capital has succeeded on a position with a non-zero initial value
C1_Witness ==
  /\ last.exit = 0
  /\ \E i \in StoredIdx :
       /\ Stored[i].capital_additions_usd > 0
       /\ Stored[i].initial_value_usd # 0

\* C2: in every reachable state at most one non-closed position exists per
\* token, tokens compared case-insensitively.
C2_OneActivePerToken ==
  \A i, j \in StoredIdx :
    (/\ ~IsClosed(Stored[i])
     /\ ~IsClosed(Stored[j])
     /\ SameToken(Stored[i].token, Stored[j].token)) => i = j

\* a closed position of a token coexists with the active position of the
\* same token
C2_Witness ==
  \E i, j \in StoredIdx :
    /\ IsClosed(Stored[i])
    /\ ~IsClosed(Stored[j])
    /\ SameToken(Stored[i].token, Stored[j].token)

---------------------------------------------------------------------------
(* What the next run would do: the outcome of main on a command line in   *)
(* the current state.                                                      *)

Loaded == loadPositions(file, now + 1)

Outcome(args) ==
  main(Loaded, args, now + 1, CHOOSE rnd \in RandomSuffixes : TRUE, FallbackPriceUSD)

\* the command lines among argv that a run from the current state takes
Runs(argv) == IF now < MaxClock THEN argv ELSE {}

\* the positions in the file after the run of a command line
After(args) ==
  IF Outcome(args).save THEN Outcome(args).positions ELSE file.entries

HasActive(tok) ==
  \E i \in StoredIdx : ~IsClosed(Stored[i]) /\ SameToken(Stored[i].token, tok)

HasClosed(tok) ==
  \E i \in StoredIdx : IsClosed(Stored[i]) /\ SameToken(Stored[i].token, tok)

\* the add-capital, withdraw, claim-fee and close command lines on a token
MutatorArgv(tok) ==
  {args \in ArgvAddCapital \cup ArgvWithdraw \cup ArgvClaimFee \cup ArgvClose :
     Len(args) >= 2 /\ SameToken(args[2], tok)}

\* the numeric arguments of such a command line are present and pass the
\* validation of its command
ArgsAccepted(args) ==
  /\ Len(args) >= 3
  /\ ~parseFloat(args[3]).nan
  /\ parseFloat(args[3]).v > 0
  /\ Len(args) >= 4 => ~parseFloat(args[4]).nan

\* C3 as claimed: once a token has a closed position and no active one,
\* every add-capital, withdraw, claim-fee and close command on it that names
\* an amount fails with the not-found error and leaves the store unchanged.
C3_AllFailNotFound ==
  \A tok \in TokenWords :
    (HasClosed(tok) /\ ~HasActive(tok)) =>
      \A args \in Runs(MutatorArgv(tok)) :
        Len(args) >= 3 =>
          /\ Outcome(args).exit = 1
          /\ Outcome(args).err = "notfound"
          /\ ~Outcome(args).save

\* C3 as amended, a state predicate: such a command fails and saves nothing;
\* the error is not-found exactly when the arguments pass validation, and
\* the usage or validation error otherwise.
C3_FrozenOutcome ==
  \A tok \in TokenWords :
    (HasClosed(tok) /\ ~HasActive(tok)) =>
      \A args \in Runs(MutatorArgv(tok)) :
        /\ Outcome(args).exit = 1
        /\ ~Outcome(args).save
        /\ After(args) = file.entries
        /\ ArgsAccepted(args) => Outcome(args).err = "notfound"
        /\ ~ArgsAccepted(args) => Outcome(args).err \in {"usage", "nan", "range"}

\* C3 as amended: the outcome above in every state, and no run that exits
\* with an error changes the file.
C3_Frozen ==
  /\ []C3_FrozenOutcome
  /\ [][last'.exit = 1 => file' = file]_vars

\* a command was refused with not-found while token a had a closed position
\* and no active one
C3_Witness ==
  /\ HasClosed("a") /\ ~HasActive("a")
  /\ ~HasActive("b")
  /\ last = [exit |-> 1, err |-> "notfound"]

\* the active positions of a token in the file
ActiveIdx(tok) ==
  {i \in StoredIdx : ~IsClosed(Stored[i]) /\ SameToken(Stored[i].token, tok)}

\* C4: a withdraw run that succeeds raises withdrawn_usd of the token's
\* active position by exactly the amount, keeps that position's
\* total_invested_usd, initial_value_usd, capital_additions_usd and
\* fees_claimed_usd, and keeps every other position and the set of positions.
C4_WithdrawFrame ==
  \A args \in Runs(ArgvWithdraw) :
    Outcome(args).exit = 0 =>
      /\ Outcome(args).save
      /\ Len(After(args)) = Len(file.entries)
      /\ \A i \in StoredIdx :
           LET before == file.entries[i]
               after  == After(args)[i]
           IN  /\ after.key = before.key
               /\ IF i \in ActiveIdx(args[2])
                  THEN /\ after.pos.withdrawn_usd
                            = before.pos.withdrawn_usd + parseFloat(args[3]).v
                       /\ after.pos.total_invested_usd = before.pos.total_invested_usd
                       /\ after.pos.initial_value_usd = before.pos.initial_value_usd
                       /\ after.pos.capital_additions_usd
                            = before.pos.capital_additions_usd
                       /\ after.pos.fees_claimed_usd = before.pos.fees_claimed_usd
                  ELSE after = before

\* a withdraw run has succeeded on one position while another position,
\* untouched by it, is stored
C4_Witness ==
  /\ last.exit = 0
  /\ \E i, j \in StoredIdx :
       /\ i # j
       /\ Stored[i].withdrawn_usd > 0
       /\ Stored[i].total_invested_usd > 0
       /\ Stored[j].withdrawn_usd = 0

---------------------------------------------------------------------------
(* The engines, on the position displayed.                                  *)

\* C5: for the position displayed at a current value, calculatePnl returns
\* total_invested = initial + additions, unrealized = current value -
\* (total_invested - withdrawn), realized = withdrawn + fees, total = current
\* value + withdrawn + fees - total_invested, and a percentage equal to
\* total / total_invested * 100 when total_invested > 0 and exactly 0 when
\* total_invested is 0.
C5_PnlFormulas ==
  shown # <<>> =>
    LET position  == Stored[1]
        pnlData   == shown[1].pnl
        value     == pnlData.current_value_usd
        invested  == position.initial_value_usd + position.capital_additions_usd
        withdrawn == position.withdrawn_usd
        fees      == position.fees_claimed_usd
        pct       == pnlData.pnl_percentage
    IN  /\ pnlData.total_invested_usd = invested
        /\ pnlData.unrealized_pnl_usd = value - (invested - withdrawn)
        /\ pnlData.realized_pnl_usd = withdrawn + fees
        /\ pnlData.total_pnl_usd = value + withdrawn + fees - invested
        /\ invested > 0 =>
             /\ pct.d > 0
             /\ pct.n * invested = pnlData.total_pnl_usd * 100 * pct.d
        /\ invested = 0 => pct = RatZero

\* a position with nothing invested, money withdrawn and fees claimed was
\* displayed at a positive current value, and its percentage is 0
C5_Witness ==
  /\ shown # <<>>
  /\ Stored[1].initial_value_usd + Stored[1].capital_additions_usd = 0
  /\ Stored[1].withdrawn_usd > 0
  /\ Stored[1].fees_claimed_usd > 0
  /\ shown[1].pnl.current_value_usd > 0
  /\ shown[1].pnl.total_pnl_usd > 0
  /\ shown[1].pnl.pnl_percentage = RatZero

\* the condition of rule k of the ordered list, on the inputs of
\* generateSuggestion; pct is a fraction with a positive denominator
C7_Matches(k, pct, unrealized, realized) ==
  CASE k = 1 -> unrealized > 10 /\ 5 * realized > 4 * unrealized
    [] k = 2 -> pct.n >= 25 * pct.d
    [] k = 3 -> pct.n >= 15 * pct.d
    [] k = 4 -> pct.n <= (-20) * pct.d
    [] k = 5 -> pct.n <= (-10) * pct.d
    [] k = 6 -> 0 <= pct.n /\ pct.n < 5 * pct.d
    [] k = 7 -> 5 * pct.d <= pct.n /\ pct.n < 15 * pct.d
    [] OTHER -> TRUE

\* the action and confidence rule k gives
C7_Gives(k, realized, age) ==
  CASE k = 1 -> <<"TAKE_PROFIT", "HIGH">>
    [] k = 2 -> <<"TAKE_PROFIT", "HIGH">>
    [] k = 3 -> <<"REDUCE", "MEDIUM">>
    [] k = 4 -> <<"STOP_LOSS", "HIGH">>
    [] k = 5 -> IF age > 30 THEN <<"REDUCE", "MEDIUM">> ELSE <<"HOLD", "LOW">>
    [] k = 6 -> IF realized > 0 THEN <<"TOP_UP", "MEDIUM">> ELSE <<"HOLD", "LOW">>
    [] k = 7 -> <<"HOLD", "MEDIUM">>
    [] OTHER -> <<"HOLD", "LOW">>

\* the first rule of the list that matches the displayed figures
C7_FirstRule ==
  LET pnlData == shown[1].pnl
      hits == {k \in 1..8 : C7_Matches(k, pnlData.pnl_percentage,
                                       pnlData.unrealized_pnl_usd,
                                       pnlData.realized_pnl_usd)}
  IN  CHOOSE k \in hits : \A j \in hits : k <= j

C7_Age == (shown[1].at - Stored[1].created_at) \div SecPerDay

\* C7: the suggestion displayed has the action and confidence of the first
\* matching rule of the ordered list of eight rules; whenever rule 1 matches,
\* it is the TAKE_PROFIT with the fee-ratio reason, whatever the percentage.
C7_FirstMatchWins ==
  shown # <<>> =>
    LET suggestion == shown[1].suggestion
    IN  /\ <<suggestion.action, suggestion.confidence>>
             = C7_Gives(C7_FirstRule, shown[1].pnl.realized_pnl_usd, C7_Age)
        /\ C7_FirstRule = 1 <=> suggestion.reason = "High fees earned"

\* rule 1 and rule 2 both match, and the fee-ratio TAKE_PROFIT was displayed
C7_Witness ==
  /\ shown # <<>>
  /\ shown[1].pnl.unrealized_pnl_usd > 10
  /\ 5 * shown[1].pnl.realized_pnl_usd > 4 * shown[1].pnl.unrealized_pnl_usd
  /\ shown[1].pnl.pnl_percentage.n >= 30 * shown[1].pnl.pnl_percentage.d
  /\ shown[1].suggestion = Suggest("TAKE_PROFIT", "High fees earned", "HIGH")

\* C6: a close run that succeeds adds the final fees to fees_claimed_usd
\* and stores final_pnl_usd and final_pnl_percentage equal to the
\* total_pnl_usd and pnl_percentage calculatePnl returns for the position
\* with the fees added, at the exit value, with exit_value_usd = exit value
\* and is_closed = true; and every closed position stored carries the PnL
\* calculatePnl returns for it at its exit value.
C6_CloseStoresFinalPnl ==
  /\ \A args \in PnlCloseArgv :
       LET out == Outcome(args)
       IN  out.exit = 0 =>
             \A i \in ActiveIdx(args[2]) :
               LET before    == Stored[i]
                   after     == out.positions[i].pos
                   exitValue == parseFloat(args[3]).v
                   finalFees == IF Len(args) >= 4 THEN parseFloat(args[4]).v ELSE 0
                   postFee   == [before EXCEPT
                                   !.fees_claimed_usd = before.fees_claimed_usd + finalFees]
                   pnlData   == calculatePnl(postFee, exitValue, FallbackPriceUSD)
               IN  /\ out.save
                   /\ after.fees_claimed_usd = before.fees_claimed_usd + finalFees
                   /\ after.final_pnl_usd = pnlData.total_pnl_usd
                   /\ after.final_pnl_percentage = pnlData.pnl_percentage
                   /\ after.exit_value_usd = exitValue
                   /\ after.is_closed = TRUE
  /\ \A i \in StoredIdx :
       IsClosed(Stored[i]) =>
         LET pnlData == calculatePnl(Stored[i], Stored[i].exit_value_usd,
                                     FallbackPriceUSD)
         IN  /\ Stored[i].final_pnl_usd = pnlData.total_pnl_usd
             /\ Stored[i].final_pnl_percentage = pnlData.pnl_percentage

\* the position with initial value 200, additions 100, withdrawn 50 and fees
\* 5 was closed by close 500 10: fees 15, final PnL 265, 265/300 of 100 %
C6_Witness ==
  /\ last.exit = 0
  /\ IsClosed(Stored[1])
  /\ Stored[1].initial_value_usd = 200
  /\ Stored[1].capital_additions_usd = 100
  /\ Stored[1].withdrawn_usd = 50
  /\ Stored[1].exit_value_usd = 500
  /\ Stored[1].fees_claimed_usd = 15
  /\ Stored[1].final_pnl_usd = 265
  /\ Stored[1].final_pnl_percentage = [n |-> 265, d |-> 3]

---------------------------------------------------------------------------
(* The amounts stored, over the runs of the commands.                       *)

\* C8: in every state reached from the empty store, initial_value_usd,
\* capital_additions_usd, withdrawn_usd, fees_claimed_usd and
\* total_invested_usd of every stored position are >= 0.
C8_NonNegative ==
  \A i \in StoredIdx :
    /\ Stored[i].initial_value_usd >= 0
    /\ Stored[i].capital_additions_usd >= 0
    /\ Stored[i].withdrawn_usd >= 0
    /\ Stored[i].fees_claimed_usd >= 0
    /\ Stored[i].total_invested_usd >= 0

\* field f of every position that a run keeps is not lower after the run
\* than before it; positions are identified by their id, the key of the entry
NeverLowers(f) ==
  \A i \in 1..Len(file.entries), j \in 1..Len(file'.entries) :
    file.entries[i].key = file'.entries[j].key =>
      file'.entries[j].pos[f] >= file.entries[i].pos[f]

\* C9: for every position id, no run of a command lowers fees_claimed_usd.
C9_FeesNeverDecrease == [][NeverLowers("fees_claimed_usd")]_vars

\* an add-capital or withdraw command line whose amount parses to a number
\* that is not positive is refused, and nothing is saved
C10_RefusesNonPositive ==
  \A args \in Runs(ArgvAddCapital \cup ArgvWithdraw) :
    (/\ Len(args) >= 3
     /\ ~parseFloat(args[3]).nan
     /\ parseFloat(args[3]).v <= 0) =>
       LET out == Outcome(args)
       IN  out.exit = 1 /\ out.err = "range" /\ ~out.save

\* C10: for every position id, no run of a command lowers
\* capital_additions_usd or withdrawn_usd, and add-capital and withdraw with
\* an amount <= 0 fail and leave the store unchanged.
C10_CapitalFlowsNeverDecrease ==
  /\ []C10_RefusesNonPositive
  /\ [][/\ NeverLowers("capital_additions_usd")
        /\ NeverLowers("withdrawn_usd")
        /\ last'.err = "range" => file' = file]_vars

\* capital was added to a position, and then a command was refused because
\* its amount was not positive
C10_Witness ==
  /\ last = [exit |-> 1, err |-> "range"]
  /\ \E i \in StoredIdx :
       /\ ~IsClosed(Stored[i])
       /\ Stored[i].capital_additions_usd > 0

---------------------------------------------------------------------------
(* The arguments of the commands, and what a failed run leaves behind.      *)

\* the words that are a number and nothing else
WellFormedWords == {"-1", "0", "1", "10", "500", "10001"}

\* the positions of the numeric arguments of a command line
NumericArgs(args) ==
  IF Len(args) < 1 THEN {}
  ELSE IF CommandOf(args) \in CommandWords
       THEN IF CommandOf(args) \in {"reset", "claim-fee", "add-capital",
                                    "withdraw", "close"}
            THEN 3..Len(args) ELSE {}
       ELSE 2..Len(args)

\* C11: a command line with a numeric argument that is not a well-formed
\* finite number (text, a number followed by garbage, Infinity) exits with a
\* non-zero status and saves nothing.
C11_RejectsMalformed ==
  \A args \in Runs(NonFiniteArgv \cup Argv) :
    (\E k \in NumericArgs(args) : args[k] \notin WellFormedWords) =>
      /\ Outcome(args).exit = 1
      /\ ~Outcome(args).save

\* C12: a run that reports a failure has not written the file, and a run
\* that wrote the file exits with status 0.
C12_FailureWritesNothing == [][last'.exit # 0 => file' = file]_vars


\* C13: a close run succeeds only if the exit value is > 0, the final fees
\* are >= 0 and the token has an active position; a close run whose exit
\* value is <= 0 or whose final fees are < 0 fails and leaves the store
\* unchanged.
C13_CloseValidatesAmounts ==
  \A args \in Runs(ArgvClose) :
    LET out       == Outcome(args)
        exitValue == IF Len(args) >= 3 THEN parseFloat(args[3]).v ELSE NaN
        finalFees == IF Len(args) >= 4 THEN parseFloat(args[4]).v ELSE 0
    IN  /\ out.exit = 0 =>
             /\ Len(args) >= 3
             /\ Gt(exitValue, 0)
             /\ Ge(finalFees, 0)
             /\ HasActive(args[2])
        /\ (Len(args) >= 3 /\ (Le(exitValue, 0) \/ Lt(finalFees, 0))) =>
             /\ out.exit = 1
             /\ ~out.save

---------------------------------------------------------------------------
(* The record command.                                                      *)

\* the fields initializePosition gives a position
FreshFields ==
  {"id", "token", "initial_value_usd", "fees_claimed_usd", "created_at",
   "last_updated", "capital_additions_usd", "withdrawn_usd",
   "total_invested_usd"}

\* C14: a record run on a token that has no active position adds exactly one
\* position, not closed, whose initial_value_usd and total_invested_usd are
\* the value given and whose capital_additions_usd, withdrawn_usd and
\* fees_claimed_usd are 0, also when a fees argument is given; every position
\* stored before, the closed ones of the same token included, is unchanged.
C14_RecordCreates ==
  \A args \in Runs(HistoryRecord) :
    LET out == Outcome(args)
    IN  (out.exit = 0 /\ ~HasActive(args[1])) =>
          /\ out.save
          /\ Len(out.positions) = Len(file.entries) + 1
          /\ \A i \in StoredIdx : out.positions[i] = file.entries[i]
          /\ LET new == out.positions[Len(out.positions)].pos
             IN  /\ DOMAIN new = FreshFields
                 /\ ~IsClosed(new)
                 /\ SameToken(new.token, args[1])
                 /\ new.initial_value_usd = parseFloat(args[2]).v
                 /\ new.total_invested_usd = parseFloat(args[2]).v
                 /\ new.capital_additions_usd = 0
                 /\ new.withdrawn_usd = 0
                 /\ new.fees_claimed_usd = 0

\* a record run has created a position for a token that has a closed
\* position: the position displayed was created by the last writing run,
\* with no fees, and is stored next to the closed one
C14_Witness ==
  /\ last.exit = 0
  /\ now > 0
  /\ shown # <<>>
  /\ shown[1].position.created_at = now
  /\ shown[1].position.fees_claimed_usd = 0
  /\ HasClosed(shown[1].position.token)
  /\ \E i \in StoredIdx : Stored[i] = shown[1].position

\* C15: a record run on a token that has an active position adds the fees
\* argument (0 when absent) to that position's fees_claimed_usd, keeps its
\* id, initial_value_usd, capital_additions_usd, withdrawn_usd,
\* total_invested_usd and created_at, and stores the current value in no
\* field of the position: only fees_claimed_usd and last_updated change, and
\* every other position is unchanged.
C15_RecordUpdates ==
  \A args \in Runs(HistoryRecord) :
    LET out  == Outcome(args)
        fees == IF Len(args) >= 3 THEN parseFloat(args[3]).v ELSE 0
    IN  (out.exit = 0 /\ HasActive(args[1])) =>
          /\ out.save
          /\ Len(out.positions) = Len(file.entries)
          /\ \A i \in StoredIdx :
               LET before == file.entries[i]
                   after  == out.positions[i]
               IN  /\ after.key = before.key
                   /\ IF i \in ActiveIdx(args[1])
                      THEN /\ DOMAIN after.pos = DOMAIN before.pos
                           /\ after.pos.fees_claimed_usd
                                = before.pos.fees_claimed_usd + fees
                           /\ \A f \in DOMAIN before.pos
                                     \ {"fees_claimed_usd", "last_updated"} :
                                after.pos[f] = before.pos[f]
                      ELSE after = before

\* a record run with a fees argument has updated an active position: the
\* position displayed was created earlier and holds the fees
C15_Witness ==
  /\ last.exit = 0
  /\ shown # <<>>
  /\ shown[1].position.created_at < shown[1].position.last_updated
  /\ shown[1].position.fees_claimed_usd > 0
  /\ shown[1].position.initial_value_usd > 1

---------------------------------------------------------------------------
(* The reset and remove commands.                                           *)

\* the closed positions among positions, in their order
ClosedOf(positions) == SelectSeq(positions, LAMBDA e : IsClosed(e.pos))

\* the positions of the tokens other than tok, in their order
OthersOf(positions, tok) ==
  SelectSeq(positions, LAMBDA e : ~SameToken(e.pos.token, tok))

\* the indexes of the active positions of tok among positions
ActiveOf(positions, tok) ==
  {i \in 1..Len(positions) :
     ~IsClosed(positions[i].pos) /\ SameToken(positions[i].pos.token, tok)}

\* C16: a reset run that succeeds removes the active position of the token
\* without making it a closed one (the closed positions are the same
\* before and after, and no position keeps the old id), and leaves exactly
\* one active position for the token, whose initial_value_usd and
\* total_invested_usd are the value given and whose capital_additions_usd,
\* withdrawn_usd and fees_claimed_usd are 0; a reset run on a token that has
\* no active position fails and leaves the store unchanged.
C16_ResetReplaces ==
  \A args \in Runs(HistoryArgvOf("reset")) :
    LET out == Outcome(args)
    IN  /\ (Len(args) >= 2 /\ ~HasActive(args[2])) =>
             /\ out.exit = 1
             /\ ~out.save
        /\ out.exit = 0 =>
             /\ out.save
             /\ HasActive(args[2])
             /\ ClosedOf(out.positions) = ClosedOf(file.entries)
             /\ OthersOf(out.positions, args[2]) = OthersOf(file.entries, args[2])
             /\ \A i \in ActiveIdx(args[2]), j \in 1..Len(out.positions) :
                  /\ out.positions[j].key # file.entries[i].key
                  /\ out.positions[j].pos.id # Stored[i].id
             /\ Cardinality(ActiveOf(out.positions, args[2])) = 1
             /\ \A j \in ActiveOf(out.positions, args[2]) :
                  LET new == out.positions[j].pos
                  IN  /\ new.initial_value_usd = parseFloat(args[3]).v
                      /\ new.total_invested_usd = parseFloat(args[3]).v
                      /\ new.capital_additions_usd = 0
                      /\ new.withdrawn_usd = 0
                      /\ new.fees_claimed_usd = 0

\* a reset run has replaced the active position of a token that also has a
\* closed position: the active one was created by the last writing run,
\* which displayed nothing
C16_Witness ==
  /\ last.exit = 0
  /\ shown = <<>>
  /\ now > 0
  /\ \E i, j \in StoredIdx :
       /\ ~IsClosed(Stored[i])
       /\ Stored[i].created_at = now
       /\ Stored[i].initial_value_usd = 10001
       /\ IsClosed(Stored[j])
       /\ SameToken(Stored[j].token, Stored[i].token)

\* C17: a remove run that succeeds deletes exactly the active position of
\* the token: the closed positions of the token and the positions of the
\* other tokens are unchanged; a remove run on a token that has no active
\* position fails and leaves the store unchanged, also when the token has
\* closed positions.
C17_RemoveDeletesActive ==
  \A args \in Runs(HistoryArgvOf("remove")) :
    LET out == Outcome(args)
    IN  /\ (Len(args) >= 2 /\ ~HasActive(args[2])) =>
             /\ out.exit = 1
             /\ ~out.save
        /\ out.exit = 0 =>
             /\ out.save
             /\ \E i \in ActiveIdx(args[2]) :
                  out.positions = DropAt(file.entries, i)
             /\ ClosedOf(out.positions) = ClosedOf(file.entries)
             /\ OthersOf(out.positions, args[2]) = OthersOf(file.entries, args[2])

\* a remove run has deleted the active position of a token that keeps a
\* closed position, while a position of another token is stored: the last
\* run wrote the store and touched no position that is left
C17_Witness ==
  /\ last.exit = 0
  /\ shown = <<>>
  /\ now > 0
  /\ \A i \in StoredIdx : Stored[i].last_updated # now
  /\ \E i, j \in StoredIdx :
       /\ IsClosed(Stored[i])
       /\ ~HasActive(Stored[i].token)
       /\ ~SameToken(Stored[j].token, Stored[i].token)

---------------------------------------------------------------------------
(* The ids of the positions.                                                *)

\* the stored positions a run of args keeps: all of them, but for the
\* active position of the token when the command is reset
KeptIdx(args) ==
  IF args[1] = "reset" THEN StoredIdx \ ActiveIdx(args[2]) ELSE StoredIdx

\* C18: whenever record or reset inserts a new position, its id differs from
\* the id of every position kept in the store, active or closed, so that
\* every such position is still stored, unchanged, after the run; and no
\* run changes the id of a position it keeps.
C18_InsertNeverOverwrites ==
  \A args \in Runs({a \in IdArgv : a[1] # "close"}) :
    \A t \in IdTimes, rnd \in IdSuffixes :
      LET loaded   == loadPositions(file, t)
          out      == main(loaded, args, t, rnd, FallbackPriceUSD)
          token    == IF args[1] = "reset" THEN args[2] ELSE args[1]
          inserts  == out.save /\ (args[1] = "reset" \/ ~HasActive(token))
      IN  inserts =>
            /\ \A i \in KeptIdx(args) :
                 Stored[i].id # generatePositionId(token, t, rnd)
            /\ \A i \in KeptIdx(args) :
                 \E j \in 1..Len(out.positions) :
                   out.positions[j] = file.entries[i]

---------------------------------------------------------------------------
(* The price oracle.                                                        *)

C20_StaleCacheFallsBack ==
  (oracle.pc = "returned" /\ oracle.upstream \in Failures) =>
     /\ oracle.via = "cache" =>
          /\ solPriceCache # <<>>
          /\ now - solPriceCache[1].timestamp < FallbackMinutes * 60
     /\ (solPriceCache = <<>>
           \/ now - solPriceCache[1].timestamp >= FallbackMinutes * 60) =>
          oracle.price = FallbackPriceUSD

\* the cache c holds an entry that is less than 5 minutes old at time t
Fresh(c, t) == c # <<>> /\ t - c[1].timestamp < 5 * 60

---------------------------------------------------------------------------
(* The store of an earlier version, and the unreadable store.               *)

\* the times at which a run can load the store next
LoadTimes == {now + 1, now + 2}

\* C22: the migration that loadPositions applies is idempotent: whatever the
\* store holds (token-keyed records without an id, records with
\* capital_reduction_usd and profit_taken_usd, records of the current
\* format), migrating the migrated records again, at the same or at a later
\* time, in memory or after they were saved and read back, gives the same
\* records under the same ids with the same field values
C22_MigrationIdempotent ==
  \A t \in LoadTimes, u \in LoadTimes :
    LET migrated == loadPositions(file, t)
    IN  /\ MigrateFrom(migrated, <<>>, u) = migrated
        /\ loadPositions(savePositions(migrated), u) = migrated

\* a mutating run has saved the migrated form of a token-keyed record that
\* had capital_reduction_usd and profit_taken_usd
C22_Witness ==
  /\ now > 0
  /\ \E i \in StoredIdx :
       /\ Len(Stored[i].id) = 2
       /\ file.entries[i].key = Stored[i].id
       /\ Has(Stored[i], "withdrawn_usd") /\ Stored[i].withdrawn_usd = 2
       /\ Stored[i].total_invested_usd = 510
       /\ ~Has(Stored[i], "capital_reduction_usd")
       /\ ~Has(Stored[i], "profit_taken_usd")


---------------------------------------------------------------------------
(* The statistics of the summary.                                           *)

\* the final PnL of a closed position, and what was invested in it
FinalPnl(position) == OrZero(position, "final_pnl_usd")
Invested(position) == OrZero(position, "total_invested_usd")

RECURSIVE SumOver(_, _)
SumOver(amounts, S) ==
  IF S = {} THEN 0
  ELSE LET i == CHOOSE j \in S : TRUE
       IN  amounts[i] + SumOver(amounts, S \ {i})

\* what the claim says of one section of the report, given the value of the
\* overall percentage it names
StatsAsClaimed(section, overall(_, _)) ==
  LET positions == section.of
      stats     == section.stats
      n         == Len(positions)
      pnl       == [i \in 1..n |-> FinalPnl(positions[i])]
      invested  == [i \in 1..n |-> Invested(positions[i])]
      wins      == {i \in 1..n : pnl[i] > 0}
      losses    == {i \in 1..n : pnl[i] < 0}
      w         == Cardinality(wins)
      l         == Cardinality(losses)
      avgWin    == IF w = 0 THEN RatZero ELSE Rat(SumOver(pnl, wins), w)
      avgLoss   == IF l = 0 THEN RatZero ELSE Rat(SumOver(pnl, losses), l)
  IN  /\ stats.winningPositions = w
      /\ stats.losingPositions = l
      /\ stats.totalPnlUSD = SumOver(pnl, 1..n)
      /\ stats.totalInvestedUSD = SumOver(invested, 1..n)
      /\ stats.winRate = Rat(w * 100, n)
      /\ stats.overallPnlPercentage =
           overall(SumOver(pnl, 1..n), SumOver(invested, 1..n))
      /\ stats.expectedValueUSD =
           RatAdd(RatMul(Rat(w, n), avgWin), RatMul(Rat(l, n), avgLoss))
      /\ stats.expectedValueUSD = Rat(SumOver(pnl, 1..n), n)

---------------------------------------------------------------------------
(* Invocations that run at once.                                            *)

\* the process p ended with a write, and q, which had loaded the store
\* before that write, ended with the write that gave the file its content
Overwrote(q, p) ==
  /\ p \in DOMAIN running /\ q \in DOMAIN running /\ p # q
  /\ running[p].pc = "ended" /\ running[p].saved
  /\ running[q].pc = "ended" /\ running[q].saved
  /\ running[q].t <= running[p].order
  /\ running[p].order < running[q].order
  /\ running[q].order = now

\* the store the command line of q makes of the store q loaded
MadeOf(q) ==
  savePositions(main(running[q].loaded, running[q].args, running[q].t,
                     CHOOSE rnd \in RandomSuffixes : TRUE,
                     FallbackPriceUSD).positions)

\* C24: two invocations at once can lose an update.  When both have loaded
\* the store before either saves, the file holds in the end what the one
\* that saved last made of the store it had loaded: whatever the one that
\* saved first had written is gone, unless the last made the same change.
\* A close that succeeded is undone in this way by a claim-fee or a record
\* on the same token, and the position is active again.
C24_LostUpdate ==
  \A p \in Procs, q \in Procs :
    Overwrote(q, p) =>
      /\ file = MadeOf(q)
      /\ \A i \in StoredIdx :
           \/ \E k \in 1..Len(running[q].loaded) :
                running[q].loaded[k].key = file.entries[i].key
           \/ Stored[i].created_at = running[q].t

\* close a succeeded and wrote; claim-fee a, which had loaded the store
\* before, succeeded and wrote after it: a is active, with the fee
C24_Witness ==
  \E p \in Procs, q \in Procs :
    /\ Overwrote(q, p)
    /\ running[p].args = <<"close", "a", "10">> /\ running[p].exit = 0
    /\ running[q].args = <<"claim-fee", "a", "1">> /\ running[q].exit = 0
    /\ \A i \in StoredIdx : ~IsClosed(Stored[i])
    /\ \E i \in StoredIdx :
         Stored[i].token = "a" /\ Stored[i].fees_claimed_usd = 1


\* C28: however the invocations interleave, every store that is written
\* holds at most one active position per token, and in every position of it
\* total_invested_usd = initial_value_usd + capital_additions_usd.
C28_InterleavedWritesKeepInvariants ==
  /\ \A i, j \in StoredIdx :
       (/\ ~IsClosed(Stored[i])
        /\ ~IsClosed(Stored[j])
        /\ SameToken(Stored[i].token, Stored[j].token)) => i = j
  /\ \A i \in StoredIdx :
       Stored[i].total_invested_usd
         = Stored[i].initial_value_usd + Stored[i].capital_additions_usd

\* add-capital a wrote the store over the write of a process that had
\* closed or recorded in between, and the store holds two tokens or a
\* closed position next to the active one
C28_Witness ==
  \E p \in Procs, q \in Procs :
    /\ Overwrote(q, p)
    /\ running[q].args = <<"add-capital", "a", "1">> /\ running[q].exit = 0
    /\ running[p].exit = 0
    /\ \E i \in StoredIdx :
         /\ Stored[i].capital_additions_usd = 1
         /\ Stored[i].total_invested_usd = 2


---------------------------------------------------------------------------
(* The closure data.                                                        *)

ClosureFields ==
  {"closed_at", "exit_value_usd", "final_pnl_usd", "final_pnl_percentage"}

\* C25: in every store reached from the empty store, a position is closed
\* exactly when it has all four of closed_at, exit_value_usd, final_pnl_usd
\* and final_pnl_percentage, and an active position has none of them.
C25_ClosedIffClosureData ==
  \A i \in StoredIdx :
    /\ IsClosed(Stored[i]) <=> ClosureFields \subseteq DOMAIN Stored[i]
    /\ ~IsClosed(Stored[i]) => ClosureFields \cap DOMAIN Stored[i] = {}

\* close has succeeded, and a new position of the token was recorded after
C25_Witness ==
  \E i, j \in StoredIdx :
    /\ IsClosed(Stored[i])
    /\ Stored[i].closed_at > Stored[i].created_at
    /\ Stored[i].exit_value_usd > 0
    /\ ~IsClosed(Stored[j])
    /\ Stored[j].created_at > Stored[i].closed_at
    /\ SameToken(Stored[i].token, Stored[j].token)


---------------------------------------------------------------------------
(* The bands of the suggestion rules.                                       *)

DefaultReason == "Position performing as expected"

\* C26 as claimed: the bands of rules 2 to 7 leave no gap, so the default
\* (HOLD, LOW, 'performing as expected') never produces the suggestion that
\* is displayed.
C26_DefaultNeverProduced ==
  shown # <<>> => shown[1].suggestion.reason # DefaultReason

\* C26 as amended: the bands of rules 2 to 7 leave one gap, the percentages
\* strictly between -10 and 0.  The default produces the suggestion exactly
\* when the percentage is in the gap and rule 1 does not match, and what it
\* gives is HOLD with LOW confidence; for every other percentage a rule
\* before the default matches.
C26_DefaultExactlyInGap ==
  shown # <<>> =>
    LET pct        == shown[1].pnl.pnl_percentage
        unrealized == shown[1].pnl.unrealized_pnl_usd
        realized   == shown[1].pnl.realized_pnl_usd
        suggestion == shown[1].suggestion
        inGap      == (-10) * pct.d < pct.n /\ pct.n < 0
        feeRisk    == unrealized > 10 /\ 5 * realized > 4 * unrealized
    IN  /\ pct.d > 0
        /\ suggestion.reason = DefaultReason <=> (inGap /\ ~feeRisk)
        /\ suggestion.reason = DefaultReason =>
             suggestion.action = "HOLD" /\ suggestion.confidence = "LOW"
        /\ ~inGap =>
             \/ feeRisk
             \/ pct.n >= 15 * pct.d
             \/ pct.n <= (-10) * pct.d
             \/ (0 <= pct.n /\ pct.n < 15 * pct.d)

\* a position with 100 invested is displayed at a current value of 95: the
\* percentage is -5 and the suggestion is the default
C26_Witness ==
  /\ shown # <<>>
  /\ shown[1].pnl.total_invested_usd = 100
  /\ shown[1].pnl.current_value_usd = 95
  /\ shown[1].pnl.pnl_percentage = Rat(-5, 1)
  /\ shown[1].suggestion = Suggest("HOLD", DefaultReason, "LOW")


---------------------------------------------------------------------------
(* The figures of calculatePnl, one against the others.                     *)

\* C27: the figures calculatePnl returns for the position displayed satisfy
\* total_pnl_usd = unrealized_pnl_usd + realized_pnl_usd - withdrawn_usd:
\* the money withdrawn counts in the unrealized and in the realized figure
\* and once in the total.
C27_TotalIsUnrealizedPlusRealized ==
  shown # <<>> =>
    LET pnlData == shown[1].pnl
    IN  pnlData.total_pnl_usd
          = pnlData.unrealized_pnl_usd + pnlData.realized_pnl_usd
              - OrZero(shown[1].position, "withdrawn_usd")

\* a position with money withdrawn and fees claimed is displayed, and the
\* total is not the sum of the two other figures
C27_Witness ==
  /\ shown # <<>>
  /\ shown[1].position.withdrawn_usd = 50
  /\ shown[1].position.fees_claimed_usd = 5
  /\ shown[1].pnl.realized_pnl_usd = 55
  /\ shown[1].pnl.total_pnl_usd
       # shown[1].pnl.unrealized_pnl_usd + shown[1].pnl.realized_pnl_usd


---------------------------------------------------------------------------
(* The commands that only print, and the file that cannot be read.          *)

\* a run of list, closed or summary
ViewStep ==
  \/ \E args \in ArgvList : main_list(args)
  \/ \E args \in ArgvClosed : main_closed(args)
  \/ \E args \in ArgvSummary : main_summary(args)

\* the file holds a record of the earlier version: one without an id, or
\* one with capital_reduction_usd
HoldsLegacy ==
  \E i \in StoredIdx :
    ~Has(Stored[i], "id") \/ Has(Stored[i], "capital_reduction_usd")

\* C29: list, closed and summary never write the position file: it is the
\* same after the run as before, also when loadPositions migrated records
\* of the earlier version in memory, which stay unmigrated in the file.
C29_ViewsNeverWrite ==
  [][ViewStep => /\ file' = file
                 /\ now' = now
                 /\ HoldsLegacy => HoldsLegacy']_vars

\* a command that only prints has run on a file of the earlier version,
\* which loads as records with ids and withdrawn_usd, and the file still
\* holds the records as they were
C29_Witness ==
  /\ ~Has(last, "by")
  /\ now = 0
  /\ ~Unreadable(file)
  /\ HoldsLegacy
  /\ \E i \in StoredIdx :
       /\ ~Has(Stored[i], "id")
       /\ Has(Stored[i], "capital_reduction_usd")
       /\ Has(loadPositions(file, now + 1)[i].pos, "id")
       /\ Has(loadPositions(file, now + 1)[i].pos, "withdrawn_usd")

\* C30: when the file exists and cannot be read or parsed, loadPositions
\* returns the empty store and no run reports an error for it; the next
\* command that writes replaces the file with a store that holds only what
\* that command made (nothing after clean, the one new position after
\* record), so every position the file held is gone.
C30_UnreadableFileIsReplaced ==
  [][Unreadable(file) =>
       /\ loadPositions(file, now + 1) = <<>>
       /\ last'.exit = 0 /\ last'.err = "none"
       /\ file' # file =>
            /\ ~Unreadable(file')
            /\ Len(file'.entries) <= 1
            /\ \A i \in 1..Len(file'.entries) :
                 /\ file'.entries[i].pos.created_at = now'
                 /\ file'.entries[i].pos.id \notin
                      {loadPositions_Salvages(file, now')[k].key :
                         k \in 1..Len(file.entries)}]_vars

\* the first write of the store left one position, created by that run:
\* record ran on a file that held positions and could not be read
C30_Witness ==
  /\ now = 1
  /\ last.exit = 0
  /\ ~Unreadable(file)
  /\ Len(file.entries) = 1
  /\ Has(Stored[1], "created_at") /\ Stored[1].created_at = 1
  /\ Stored[1].initial_value_usd = 1
  /\ shown # <<>>

=============================================================================
